---- MODULE Spec2Model ----
(***************************************************************************)
(* Model of the slimCat log importer of Horizon                            *)
(* (src/electron/services/importer/importer.ts).                           *)
(*                                                                         *)
(* Strings are sequences of one-character strings, indexed from 1; the     *)
(* JavaScript string methods the importer uses (indexOf, substring,        *)
(* substr, slice, parseInt, toLowerCase) and its regular expressions are   *)
(* operators over such sequences that take and return 0-based positions    *)
(* as the source does.                                                     *)
(***************************************************************************)
EXTENDS Integers, Sequences, FiniteSets, TLC

-----------------------------------------------------------------------------
(* JavaScript values and string primitives                                 *)

\* NaN, the result of parseInt on a string with no leading number and the
\* time value of an Invalid Date: a number no computation of the model
\* yields, absorbing in the arithmetic below.
NaN == 0 - 1000000000

IsNaN(x) == x = NaN

Plus(a, b) == IF IsNaN(a) \/ IsNaN(b) THEN NaN ELSE a + b

Minus(a, b) == IF IsNaN(a) \/ IsNaN(b) THEN NaN ELSE a - b

Times(a, b) == IF IsNaN(a) \/ IsNaN(b) THEN NaN ELSE a * b

\* undefined: a missing return value, an unopened file handle.
Undefined == "undefined"

Min(a, b) == IF a < b THEN a ELSE b

Max(a, b) == IF a > b THEN a ELSE b

\* Characters of a string from 0-based position from (inclusive) to position
\* to (exclusive); both already clamped to 0..Len(s) with from <= to.
Slice0(s, from, to) == [k \in 1..(to - from) |-> s[from + k]]

\* String.prototype.substring(a, b): both ends clamped to 0..length, swapped
\* when a > b.
Substring(s, a, b) ==
  LET ca == Max(0, Min(a, Len(s)))
      cb == Max(0, Min(b, Len(s)))
  IN  Slice0(s, Min(ca, cb), Max(ca, cb))

\* String.prototype.substr(start, length) for start >= 0.
Substr(s, start, length) ==
  LET from == Min(start, Len(s))
      to   == Min(Len(s), from + Max(0, length))
  IN  Slice0(s, from, to)

\* s[i] for a 0-based i; undefined outside the string.
CharAt(s, i) == IF i >= 0 /\ i < Len(s) THEN s[i + 1] ELSE Undefined

\* String.prototype.indexOf(ch, from): 0-based position of the first ch at or
\* after from, or -1.
IndexOf(s, ch, from) ==
  LET hits == {p \in Max(0, from)..(Len(s) - 1) : s[p + 1] = ch}
  IN  IF hits = {} THEN -1 ELSE CHOOSE p \in hits : \A q \in hits : p <= q

\* startsWith at 0-based position at.
StartsWithAt(s, at, prefix) ==
  /\ at + Len(prefix) <= Len(s)
  /\ \A k \in 1..Len(prefix) : s[at + k] = prefix[k]

EndsWith(s, suffix) ==
  /\ Len(suffix) <= Len(s)
  /\ \A k \in 1..Len(suffix) : s[Len(s) - Len(suffix) + k] = suffix[k]

Digits == {"0", "1", "2", "3", "4", "5", "6", "7", "8", "9"}

UpperLetters ==
  {"A", "B", "C", "D", "E", "F", "G", "H", "I", "J", "K", "L", "M",
   "N", "O", "P", "Q", "R", "S", "T", "U", "V", "W", "X", "Y", "Z"}

LowerLetters ==
  {"a", "b", "c", "d", "e", "f", "g", "h", "i", "j", "k", "l", "m",
   "n", "o", "p", "q", "r", "s", "t", "u", "v", "w", "x", "y", "z"}

\* [A-Za-z0-9]
AlNum == UpperLetters \cup LowerLetters \cup Digits

\* \w of a JavaScript regular expression, which decides \b.
WordChars == AlNum \cup {"_"}

\* The characters "." of a regular expression does not match.
LineTerminators == {"\n", "\r"}

DigitValue(c) ==
  CASE c = "0" -> 0 [] c = "1" -> 1 [] c = "2" -> 2 [] c = "3" -> 3
    [] c = "4" -> 4 [] c = "5" -> 5 [] c = "6" -> 6 [] c = "7" -> 7
    [] c = "8" -> 8 [] c = "9" -> 9

LowerOf(c) ==
  CASE c = "A" -> "a" [] c = "B" -> "b" [] c = "C" -> "c" [] c = "D" -> "d"
    [] c = "E" -> "e" [] c = "F" -> "f" [] c = "G" -> "g" [] c = "H" -> "h"
    [] c = "I" -> "i" [] c = "J" -> "j" [] c = "K" -> "k" [] c = "L" -> "l"
    [] c = "M" -> "m" [] c = "N" -> "n" [] c = "O" -> "o" [] c = "P" -> "p"
    [] c = "Q" -> "q" [] c = "R" -> "r" [] c = "S" -> "s" [] c = "T" -> "t"
    [] c = "U" -> "u" [] c = "V" -> "v" [] c = "W" -> "w" [] c = "X" -> "x"
    [] c = "Y" -> "y" [] c = "Z" -> "z" [] OTHER -> c

\* String.prototype.toLowerCase()
ToLowerCase(s) == [k \in 1..Len(s) |-> LowerOf(s[k])]

\* Value of the decimal digits s[from+1..to] (0-based from, exclusive to).
RECURSIVE DigitsValue(_, _, _)
DigitsValue(s, from, to) ==
  IF to <= from THEN 0
  ELSE 10 * DigitsValue(s, from, to - 1) + DigitValue(s[to])

\* parseInt(s, 10): leading blanks are skipped, an optional sign is read, then
\* the longest run of digits; NaN when there is no digit.
\* Largest p in from..Len(s) such that s[from+1..p] holds only chars of set.
RunEnd(s, from, set) ==
  CHOOSE p \in from..Len(s) :
    /\ \A q \in (from + 1)..p : s[q] \in set
    /\ p = Len(s) \/ s[p + 1] \notin set

\* The digits of s from 0-based d to e (exclusive) as a number, negated when
\* negative; NaN when there is none.
SignedDigits(s, d, e, negative) ==
  IF e = d THEN NaN
  ELSE IF negative THEN 0 - DigitsValue(s, d, e)
  ELSE DigitsValue(s, d, e)

\* parseInt from the first character that is not blank, at 0-based b.
ParseIntAt(s, b) ==
  IF b < Len(s) /\ s[b + 1] \in {"-", "+"}
  THEN SignedDigits(s, b + 1, RunEnd(s, b + 1, Digits), s[b + 1] = "-")
  ELSE SignedDigits(s, b, RunEnd(s, b, Digits), FALSE)

ParseInt(s) == ParseIntAt(s, RunEnd(s, 0, {" ", "\n", "\r"}))

-----------------------------------------------------------------------------
(* Regular expressions of the importer                                     *)

Str_AdAt == <<"A", "d", " ", "a", "t", " ", "[">>

Str_User == <<"[", "u", "s", "e", "r", "]">>

\* [A-Za-z0-9 \-_]
NameChars == AlNum \cup {" ", "-", "_"}

\* "Ad at \[.*?]:" matched at 0-based position i of s.
AdAtMatches(s, i) ==
  /\ StartsWithAt(s, i, Str_AdAt)
  /\ \E j \in (i + 7)..(Len(s) - 2) :
       /\ s[j + 1] = "]"
       /\ s[j + 2] = ":"
       /\ \A q \in (i + 7)..(j - 1) : s[q + 1] \notin LineTerminators

\* adRegex.test(s): the pattern is not anchored.
AdRegexTest(s) == \E i \in 0..(Len(s) - 9) : AdAtMatches(s, i)

\* logRegex.test(s): anchored at the start of s.
LogRegexTest(s) ==
  \/ AdAtMatches(s, 0)
  \/ /\ Len(s) >= 9
     /\ s[1] = "["
     /\ s[2] \in Digits /\ s[3] \in Digits
     /\ s[4] \notin LineTerminators
     /\ s[5] \in Digits /\ s[6] \in Digits
     /\ \E k \in 6..(Len(s) - 3) :
          /\ \A q \in 6..(k - 1) : s[q + 1] \notin LineTerminators
          /\ s[k + 1] = "]"
          /\ s[k + 2] = " "
          /\ \/ s[k + 3] \in NameChars
             \/ /\ StartsWithAt(s, k + 2, Str_User)
                /\ CharAt(s, k + 8) \in NameChars

\* charRegex matched at 0-based position i of s with a match of L characters.
CharRegexAt(s, i, L) ==
  /\ i + L <= Len(s)
  /\ s[i + 1] \in AlNum
  /\ \A q \in (i + 2)..(i + L - 1) : s[q] \in NameChars
  /\ s[i + L] \in AlNum \cup {"-", "_"}
  /\ (s[i + L] \in WordChars) # (CharAt(s, i + L) \in WordChars)

\* charRegex.exec(s): the leftmost match, the longest there (the quantifier
\* is greedy); [found |-> FALSE] for null.
CharRegexHits(s) ==
  {i \in 0..(Len(s) - 2) : \E L \in 2..20 : CharRegexAt(s, i, L)}

\* The longest match at 0-based position i of s.
CharRegexLongest(s, i) ==
  CHOOSE L \in 2..20 :
    /\ CharRegexAt(s, i, L)
    /\ \A M \in (L + 1)..20 : ~CharRegexAt(s, i, M)

CharRegexGroup(s, i) == Slice0(s, i, i + CharRegexLongest(s, i))

CharRegexExec(s) ==
  IF CharRegexHits(s) = {} THEN [found |-> FALSE, group |-> <<>>]
  ELSE [found |-> TRUE,
        group |-> CharRegexGroup(s, CHOOSE p \in CharRegexHits(s) :
                                      \A q \in CharRegexHits(s) : p <= q)]

\* isAction(text): /^\/me\b/i
isAction(text) ==
  /\ Len(text) >= 3
  /\ text[1] = "/"
  /\ text[2] \in {"m", "M"}
  /\ text[3] \in {"e", "E"}
  /\ CharAt(text, 3) \notin WordChars

-----------------------------------------------------------------------------
(* Dates                                                                   *)

MinutesPerDay == 1440

\* Days from 1970-01-01 to the civil date y-m-d, m in 1..12.
\* Days from the start of the 400-year era to day doy of its year yoe, the
\* year counted from March.
DayOfEra(yoe, doy) == yoe * 365 + yoe \div 4 - yoe \div 100 + doy

\* Days from 1970-01-01 to day doy of the year yy counted from March.
DaysFromMarch(yy, doy) ==
  (yy \div 400) * 146097 + DayOfEra(yy % 400, doy) - 719468

\* Days from 1970-01-01 to the civil date y-m-d, m in 1..12.
DaysFromCivil(y, m, d) ==
  DaysFromMarch(IF m <= 2 THEN y - 1 ELSE y,
                (153 * (IF m > 2 THEN m - 3 ELSE m + 9) + 2) \div 5 + d - 1)

\* new Date(year, monthIndex, day).getTime(), in minutes of local time: an
\* Invalid Date when a field is NaN; a month index or day out of range
\* carries over into the next year or month; years 0..99 mean 1900..1999.
NewDate(year, monthIndex, day) ==
  IF IsNaN(year) \/ IsNaN(monthIndex) \/ IsNaN(day) THEN NaN
  ELSE (DaysFromCivil((IF year >= 0 /\ year <= 99 THEN 1900 + year ELSE year)
                        + monthIndex \div 12,
                      (monthIndex % 12) + 1, 1)
        + day - 1) * MinutesPerDay

\* addMinutes(date, amount) of date-fns.
addMinutes(date, amount) == Plus(date, amount)

-----------------------------------------------------------------------------
(* createMessage                                                           *)

MaxTextLen == 50000

RollSenderMax == 20

UndefinedMessage ==
  [type |-> "undefined", sender |-> <<>>, text |-> <<>>, time |-> NaN]

\* The sender of a line that is not a roll (lines 148-162).
SenderOf(line, lineIndex, ownCharacter, name, isChannel) ==
  IF StartsWithAt(line, lineIndex, ownCharacter) THEN ownCharacter
  ELSE IF ~isChannel /\ StartsWithAt(line, lineIndex, name) THEN name
  ELSE CharRegexExec(Substr(line, lineIndex, 21)).group

\* TimeOf with the 12-hour clock read the usual way: "AM" keeps the hour and
\* "PM" adds 12.
TimeOf_PMAdds(time, date) ==
  addMinutes(date,
             Plus(Times(IF EndsWith(time, <<"P", "M">>)
                        THEN Plus(ParseInt(Substr(time, 0, 2)), 12)
                        ELSE ParseInt(Substr(time, 0, 2)),
                        60),
                  ParseInt(Substr(time, 3, 2))))

\* Lines 136-139 and 178: the time of a line whose bracket holds time.
TimeOf(time, date) ==
  addMinutes(date,
             Plus(Times(IF EndsWith(time, <<"A", "M">>)
                        THEN Minus(ParseInt(Substr(time, 0, 2)), 12)
                        ELSE ParseInt(Substr(time, 0, 2)),
                        60),
                  ParseInt(Substr(time, 3, 2))))

\* Lines 143-146: a roll whose sender field starts at 0-based from and whose
\* next "[" is at hit (-1 when there is none).
RollMessage(line, from, hit, stamp) ==
  [type   |-> "Roll",
   sender |-> Substring(line, from,
                        IF hit - from > RollSenderMax
                        THEN from + RollSenderMax ELSE hit),
   text   |-> Substring(line,
                        (IF hit - from > RollSenderMax
                         THEN from + RollSenderMax ELSE hit) + 6,
                        MaxTextLen),
   time   |-> stamp]

\* TextAfter with no cap on the length of the text.
TextAfter_NoCap(line, at, colon, action) ==
  Substr(line,
         at + (IF colon THEN 1 ELSE 0)
            + (IF colon /\ CharAt(line, at + 1) = " " THEN 1 ELSE 0)
            + (IF action THEN 3 ELSE 0),
         Len(line))

\* Lines 164-172: what follows the sender, which ends at 0-based at.
TextAfter(line, at, colon, action) ==
  Substr(line,
         at + (IF colon THEN 1 ELSE 0)
            + (IF colon /\ CharAt(line, at + 1) = " " THEN 1 ELSE 0)
            + (IF action THEN 3 ELSE 0),
         MaxTextLen)

\* Lines 163-172 for the sender found at 0-based at.
SaidMessage(line, at, sender, stamp) ==
  [type   |-> IF CharAt(line, at + Len(sender)) # ":" \/ isAction(line)
              THEN "Action" ELSE "Message",
   sender |-> sender,
   text   |-> TextAfter(line, at + Len(sender),
                        CharAt(line, at + Len(sender)) = ":",
                        CharAt(line, at + Len(sender)) = ":" /\ isAction(line)),
   time   |-> stamp]

\* createMessage past line 135: close is the 0-based position of the "]".
MessageAt(line, close, ownCharacter, name, isChannel, date) ==
  IF CharAt(line, close + 2) = "["
  THEN RollMessage(line, close + 8, IndexOf(line, "[", close + 8),
                   TimeOf(Substring(line, 1, close), date))
  ELSE SaidMessage(line, close + 2,
                   SenderOf(line, close + 2, ownCharacter, name, isChannel),
                   TimeOf(Substring(line, 1, close), date))

\* createMessage with the return at line 135 left out.
createMessage_NoReturn(line, ownCharacter, name, isChannel, date) ==
  MessageAt(line, IndexOf(line, "]", 0), ownCharacter, name, isChannel, date)

createMessage(line, ownCharacter, name, isChannel, date) ==
  IF IndexOf(line, "]", 0) = -1 THEN UndefinedMessage
  ELSE MessageAt(line, IndexOf(line, "]", 0), ownCharacter, name, isChannel,
                 date)

-----------------------------------------------------------------------------
(* The scanning loop of importCharacter (lines 377-435)                    *)

\* The context createMessage is given for the lines of one day-file.
Context(ownCharacter, name, isChannel, date) ==
  [ownCharacter |-> ownCharacter, name |-> name,
   isChannel |-> isChannel, date |-> date]

\* Width of the look-ahead windows handed to adRegex and logRegex.
AdWindow == 14

HeaderWindow == 29

\* A newline at 0-based position index ends a logical line (line 401).
EndsLine(content, index, char) ==
  \/ LogRegexTest(Substr(content, index + (IF char = "\r" THEN 2 ELSE 1),
                         HeaderWindow))
  \/ Len(content) - index <= 2

\* One iteration of the while loop at line 380, for index < content.length,
\* up to the first await: st is [index, start, ignoreLine].  The result holds
\* the cursor after the iteration and what the iteration did:
\*   "ad"     the ad test at the start of a line set ignoreLine
\*   "resume" a newline followed by a header ended the suppressed region
\*   "skip"   a character was passed over
\*   "drop"   a line ended whose createMessage returned undefined
\*   "emit"   a line ended and createMessage returned message; the cursor is
\*            the one the writes at lines 414-427 see (index at the newline)
\* ScanStep with the ad test leaving the cursor where it is.
ScanStep_AdStays(content, st, ctx) ==
  LET index == st.index
      start == st.start
      char  == content[index + 1]
      nl    == IF char = "\r" THEN 2 ELSE 1
      line  == Substring(content, start, index)
      msg   == createMessage(line, ctx.ownCharacter, ctx.name,
                             ctx.isChannel, ctx.date)
      quiet == [index |-> index + 1, start |-> start,
                ignoreLine |-> st.ignoreLine, did |-> "skip", char |-> char,
                line |-> <<>>, message |-> UndefinedMessage]
  IN  IF index = start /\ AdRegexTest(Substr(content, start, AdWindow))
      THEN [quiet EXCEPT !.ignoreLine = TRUE, !.did = "ad", !.index = index]
      ELSE IF st.ignoreLine
      THEN IF char = "\n"
              /\ LogRegexTest(Substr(content, index + 1, HeaderWindow))
           THEN [quiet EXCEPT !.ignoreLine = FALSE, !.start = index + 1,
                              !.did = "resume"]
           ELSE quiet
      ELSE IF char \in {"\r", "\n"}
      THEN IF EndsLine(content, index, char)
           THEN IF msg = UndefinedMessage
                THEN [quiet EXCEPT !.index = index + nl, !.did = "drop",
                                   !.line = line]
                ELSE [quiet EXCEPT !.index = index, !.did = "emit",
                                   !.line = line, !.message = msg]
           ELSE [quiet EXCEPT !.index = index + nl]
      ELSE quiet

\* ScanStep with the header test of line 388 left out: any "\n" ends the
\* suppressed region.
ScanStep_AnyNewline(content, st, ctx) ==
  LET index == st.index
      start == st.start
      char  == content[index + 1]
      nl    == IF char = "\r" THEN 2 ELSE 1
      line  == Substring(content, start, index)
      msg   == createMessage(line, ctx.ownCharacter, ctx.name,
                             ctx.isChannel, ctx.date)
      quiet == [index |-> index + 1, start |-> start,
                ignoreLine |-> st.ignoreLine, did |-> "skip", char |-> char,
                line |-> <<>>, message |-> UndefinedMessage]
  IN  IF index = start /\ AdRegexTest(Substr(content, start, AdWindow))
      THEN [quiet EXCEPT !.ignoreLine = TRUE, !.did = "ad"]
      ELSE IF st.ignoreLine
      THEN IF char = "\n"
           THEN [quiet EXCEPT !.ignoreLine = FALSE, !.start = index + 1,
                              !.did = "resume"]
           ELSE quiet
      ELSE IF char \in {"\r", "\n"}
      THEN IF EndsLine(content, index, char)
           THEN IF msg = UndefinedMessage
                THEN [quiet EXCEPT !.index = index + nl, !.did = "drop",
                                   !.line = line]
                ELSE [quiet EXCEPT !.index = index, !.did = "emit",
                                   !.line = line, !.message = msg]
           ELSE [quiet EXCEPT !.index = index + nl]
      ELSE quiet

ScanStep(content, st, ctx) ==
  LET index == st.index
      start == st.start
      char  == content[index + 1]
      nl    == IF char = "\r" THEN 2 ELSE 1
      line  == Substring(content, start, index)
      msg   == createMessage(line, ctx.ownCharacter, ctx.name,
                             ctx.isChannel, ctx.date)
      quiet == [index |-> index + 1, start |-> start,
                ignoreLine |-> st.ignoreLine, did |-> "skip", char |-> char,
                line |-> <<>>, message |-> UndefinedMessage]
  IN  IF index = start /\ AdRegexTest(Substr(content, start, AdWindow))
      THEN [quiet EXCEPT !.ignoreLine = TRUE, !.did = "ad"]
      ELSE IF st.ignoreLine
      THEN IF char = "\n"
              /\ LogRegexTest(Substr(content, index + 1, HeaderWindow))
           THEN [quiet EXCEPT !.ignoreLine = FALSE, !.start = index + 1,
                              !.did = "resume"]
           ELSE quiet
      ELSE IF char \in {"\r", "\n"}
      THEN IF EndsLine(content, index, char)
           THEN IF msg = UndefinedMessage
                THEN [quiet EXCEPT !.index = index + nl, !.did = "drop",
                                   !.line = line]
                ELSE [quiet EXCEPT !.index = index, !.did = "emit",
                                   !.line = line, !.message = msg]
           ELSE [quiet EXCEPT !.index = index + nl]
      ELSE quiet

\* The rest of an iteration that emitted, after its writes (lines 429-434).
AfterWrite(st) ==
  [st EXCEPT !.index = st.index + (IF st.char = "\r" THEN 2 ELSE 1),
             !.start = st.index + (IF st.char = "\r" THEN 2 ELSE 1),
             !.did = "wrote"]

\* The loop run from st until it emits a line or reaches the end of content:
\* the code between two awaits runs to completion.
RECURSIVE ScanToRecord(_, _, _)
ScanToRecord(content, st, ctx) ==
  IF st.index >= Len(content) THEN [st EXCEPT !.did = "end"]
  ELSE LET nx == ScanStep(content, st, ctx)
       IN  IF nx.did = "emit" THEN nx ELSE ScanToRecord(content, nx, ctx)

ScanStart ==
  [index |-> 0, start |-> 0, ignoreLine |-> FALSE, did |-> "skip",
   char |-> Undefined, line |-> <<>>, message |-> UndefinedMessage]

-----------------------------------------------------------------------------
(* Day-files of a subdirectory: dates and order (lines 361-375)            *)

Str_Txt == <<".", "t", "x", "t">>

\* path.basename(filename, '.txt')
Basename(filename) ==
  IF EndsWith(filename, Str_Txt) /\ Len(filename) > Len(Str_Txt)
  THEN Substring(filename, 0, Len(filename) - Len(Str_Txt))
  ELSE filename

\* String.prototype.split(sep) for a one-character sep.
RECURSIVE Split(_, _)
Split(s, sep) ==
  LET at == IndexOf(s, sep, 0)
  IN  IF at = -1 THEN <<s>>
      ELSE <<Substring(s, 0, at)>> \o Split(Substring(s, at + 1, Len(s)), sep)

\* parseInt(date[k], 10) for the 0-based k; date[k] is undefined past the end.
PartInt(parts, k) == IF k < Len(parts) THEN ParseInt(parts[k + 1]) ELSE NaN

\* The date the map callback at lines 363-373 gives a file name.
FileDate(filename) ==
  LET date == Split(Basename(filename), "-")
  IN  NewDate(PartInt(date, 2), Minus(PartInt(date, 0), 1), PartInt(date, 1))

\* The comparator of line 374 as Array.prototype.sort sees it: a NaN result
\* counts as 0.
CompareFiles(x, y) ==
  LET v == Minus(x.date, y.date) IN IF IsNaN(v) THEN 0 ELSE v

\* Array.prototype.sort as V8 runs it on an array shorter than 64 elements:
\* the leading run is found (and reversed when strictly descending), then
\* the remaining elements are placed by binary insertion.
RECURSIVE RunLength(_, _, _)
RunLength(arr, idx, descending) ==
  IF idx > Len(arr) THEN idx - 1
  ELSE LET order == CompareFiles(arr[idx], arr[idx - 1])
       IN  IF (descending /\ order >= 0) \/ (~descending /\ order < 0)
           THEN idx - 1
           ELSE RunLength(arr, idx + 1, descending)

ReversePrefix(arr, n) ==
  [k \in 1..Len(arr) |-> IF k <= n THEN arr[n + 1 - k] ELSE arr[k]]

RECURSIVE BinarySearch(_, _, _, _)
BinarySearch(arr, pivot, left, right) ==
  IF left >= right THEN left
  ELSE LET mid == left + (right - left) \div 2
       IN  IF CompareFiles(pivot, arr[mid + 1]) < 0
           THEN BinarySearch(arr, pivot, left, mid)
           ELSE BinarySearch(arr, pivot, mid + 1, right)

RECURSIVE BinaryInsertionSort(_, _)
BinaryInsertionSort(arr, start) ==
  IF start >= Len(arr) THEN arr
  ELSE LET pivot == arr[start + 1]
           left  == BinarySearch(arr, pivot, 0, start)
           moved == [k \in 1..Len(arr) |->
                       IF k - 1 < left \/ k - 1 > start THEN arr[k]
                       ELSE IF k - 1 = left THEN pivot
                       ELSE arr[k - 1]]
       IN  BinaryInsertionSort(moved, start + 1)

SortFiles(arr) ==
  IF Len(arr) < 2 THEN arr
  ELSE LET descending == CompareFiles(arr[2], arr[1]) < 0
           run        == RunLength(arr, 3, descending)
           made       == IF descending THEN ReversePrefix(arr, run) ELSE arr
       IN  BinaryInsertionSort(made, run)

\* files.map(...).sort(...) of lines 362-374, for a directory listing of
\* [name, content] entries.
DatedFiles(listing) ==
  SortFiles([k \in 1..Len(listing) |->
               [name |-> listing[k].name, date |-> FileDate(listing[k].name)]])

-----------------------------------------------------------------------------
(* Classification of a subdirectory name (lines 333-353)                   *)

knownOfficialChannels ==
  {<<"C", "a", "n", "o", "n", " ", "C", "h", "a", "r", "a", "c", "t", "e", "r", "s">>,
   <<"M", "o", "n", "s", "t", "e", "r", "'", "s", " ", "L", "a", "i", "r">>,
   <<"G", "e", "r", "m", "a", "n", " ", "I", "C">>,
   <<"H", "u", "m", "a", "n", "s", "/", "H", "u", "m", "a", "n", "o", "i", "d", "s">>,
   <<"W", "a", "r", "h", "a", "m", "m", "e", "r", " ", "G", "e", "n", "e", "r", "a", "l">>,
   <<"L", "o", "v", "e", " ", "a", "n", "d", " ", "A", "f", "f", "e", "c", "t", "i", "o", "n">>,
   <<"T", "r", "a", "n", "s", "f", "o", "r", "m", "a", "t", "i", "o", "n">>,
   <<"H", "y", "p", "e", "r", " ", "E", "n", "d", "o", "w", "e", "d">>,
   <<"F", "o", "r", "c", "e", "/", "N", "o", "n", "-", "C", "o", "n">>,
   <<"D", "i", "a", "p", "e", "r", "s", "/", "I", "n", "f", "a", "n", "t", "i", "l", "i", "s", "m">>,
   <<"A", "v", "i", "a", "n", "s">>,
   <<"P", "o", "l", "i", "t", "i", "c", "s">>,
   <<"L", "e", "s", "b", "i", "a", "n", "s">>,
   <<"S", "u", "p", "e", "r", "h", "e", "r", "o", "e", "s">>,
   <<"F", "o", "o", "t", "p", "l", "a", "y">>,
   <<"S", "a", "d", "i", "s", "m", "/", "M", "a", "s", "o", "c", "h", "i", "s", "m">>,
   <<"G", "e", "r", "m", "a", "n", " ", "P", "o", "l", "i", "t", "i", "c", "s">>,
   <<"P", "a", "r", "a", "/", "M", "u", "l", "t", "i", "-", "P", "a", "r", "a", " ", "R", "P">>,
   <<"M", "i", "c", "r", "o", "/", "M", "a", "c", "r", "o">>,
   <<"F", "e", "r", "a", "l", "s", " ", "/", " ", "B", "e", "s", "t", "i", "a", "l", "i", "t", "y">>,
   <<"G", "a", "m", "e", "r", "s">>,
   <<"G", "a", "y", " ", "M", "a", "l", "e", "s">>,
   <<"S", "t", "o", "r", "y", " ", "D", "r", "i", "v", "e", "n", " ", "L", "F", "R", "P">>,
   <<"F", "e", "m", "d", "o", "m">>,
   <<"G", "e", "r", "m", "a", "n", " ", "O", "O", "C">>,
   <<"W", "o", "r", "l", "d", " ", "o", "f", " ", "W", "a", "r", "c", "r", "a", "f", "t">>,
   <<"A", "g", "e", "p", "l", "a", "y">>,
   <<"G", "e", "r", "m", "a", "n", " ", "F", "u", "r", "r", "y">>,
   <<"S", "c", "a", "t", " ", "P", "l", "a", "y">>,
   <<"H", "e", "r", "m", "a", "p", "h", "r", "o", "d", "i", "t", "e", "s">>,
   <<"R", "P", " ", "D", "a", "r", "k", " ", "C", "i", "t", "y">>,
   <<"A", "l", "l", " ", "i", "n", " ", "t", "h", "e", " ", "F", "a", "m", "i", "l", "y">>,
   <<"I", "n", "f", "l", "a", "t", "i", "o", "n">>,
   <<"D", "e", "v", "e", "l", "o", "p", "m", "e", "n", "t">>,
   <<"F", "a", "n", "t", "a", "s", "y">>,
   <<"F", "r", "o", "n", "t", "p", "a", "g", "e">>,
   <<"P", "o", "k", "e", "f", "u", "r", "s">>,
   <<"M", "e", "d", "i", "c", "a", "l", " ", "P", "l", "a", "y">>,
   <<"D", "o", "m", "i", "n", "a", "t", "i", "o", "n", "/", "S", "u", "b", "m", "i", "s", "s", "i", "o", "n">>,
   <<"L", "a", "t", "e", "x">>,
   <<"F", "a", "t", " ", "a", "n", "d", " ", "P", "u", "d", "g", "y">>,
   <<"M", "u", "s", "c", "l", "e", " ", "B", "o", "u", "n", "d">>,
   <<"F", "u", "r", "r", "i", "e", "s">>,
   <<"R", "P", " ", "B", "a", "r">>,
   <<"T", "h", "e", " ", "S", "l", "o", "b", " ", "D", "e", "n">>,
   <<"A", "r", "t", "i", "s", "t", "s", " ", "/", " ", "W", "r", "i", "t", "e", "r", "s">>,
   <<"M", "i", "n", "d", " ", "C", "o", "n", "t", "r", "o", "l">>,
   <<"A", "s", "s", " ", "P", "l", "a", "y">>,
   <<"S", "e", "x", " ", "D", "r", "i", "v", "e", "n", " ", "L", "F", "R", "P">>,
   <<"G", "a", "y", " ", "F", "u", "r", "r", "y", " ", "M", "a", "l", "e", "s">>,
   <<"V", "o", "r", "e">>,
   <<"N", "o", "n", "-", "S", "e", "x", "u", "a", "l", " ", "R", "P">>,
   <<"E", "q", "u", "e", "s", "t", "r", "i", "a", " ">>,
   <<"S", "c", "i", "-", "f", "i">>,
   <<"W", "a", "t", "e", "r", "s", "p", "o", "r", "t", "s">>,
   <<"S", "t", "r", "a", "i", "g", "h", "t", " ", "R", "o", "l", "e", "p", "l", "a", "y">>,
   <<"G", "o", "r", "e">>,
   <<"C", "u", "n", "t", "b", "o", "y", "s">>,
   <<"F", "e", "m", "b", "o", "y">>,
   <<"B", "o", "n", "d", "a", "g", "e">>,
   <<"C", "u", "m", " ", "L", "o", "v", "e", "r", "s">>,
   <<"T", "r", "a", "n", "s", "g", "e", "n", "d", "e", "r">>,
   <<"P", "r", "e", "g", "n", "a", "n", "c", "y", " ", "a", "n", "d", " ", "I", "m", "p", "r", "e", "g", "n", "a", "t", "i", "o", "n">>,
   <<"C", "a", "n", "o", "n", " ", "C", "h", "a", "r", "a", "c", "t", "e", "r", "s", " ", "O", "O", "C">>,
   <<"D", "r", "a", "g", "o", "n", "s">>,
   <<"H", "e", "l", "p", "d", "e", "s", "k">>}

Str_Notifications ==
  <<"!", "N", "o", "t", "i", "f", "i", "c", "a", "t", "i", "o", "n", "s">>

Str_Global == <<"G", "l", "o", "b", "a", "l">>

\* The test at lines 333-335 without "!Notifications".
IsReserved_GlobalOnly(subdir) == subdir = Str_Global

IsReserved(subdir) == subdir = Str_Notifications \/ subdir = Str_Global

\* String.prototype.slice(from, -1) for from >= 0.
SliceToLast(s, from) ==
  LET to == Max(0, Len(s) - 1)
  IN  IF from >= to THEN <<>> ELSE Slice0(s, Min(from, Len(s)), to)

Classify(subdir) ==
  LET channelMarker == IndexOf(subdir, "(", 0)
  IN  IF channelMarker # -1
      THEN [isChannel |-> TRUE,
            key  |-> ToLowerCase(<<"#">> \o SliceToLast(subdir, channelMarker + 1)),
            name |-> Substring(subdir, 0, channelMarker - 1)]
      ELSE IF subdir \in knownOfficialChannels
      THEN [isChannel |-> TRUE, key |-> ToLowerCase(<<"#">> \o subdir),
            name |-> subdir]
      ELSE [isChannel |-> FALSE, key |-> ToLowerCase(subdir), name |-> subdir]

-----------------------------------------------------------------------------
(* The log writer of ../../filesystem, which src/ does not hold            *)

\* Bytes a serialized record takes besides its sender and its text.
RecordOverhead == 10

\* The encoding of a record: its fields in a fixed order.
Encode(message) ==
  <<message.time, message.type, message.sender, message.text>>

\* Bytes an encoded record takes.
ByteLength(serialized) ==
  RecordOverhead + Len(serialized[3]) + Len(serialized[4])

\* serializeMessage(message): a deterministic encoding and its byte length.
serializeMessage(message) ==
  [serialized |-> Encode(message), size |-> ByteLength(Encode(message))]

\* The bucket the index builder files a record under: its calendar day.
Bucket(time) == IF IsNaN(time) THEN NaN ELSE time \div MinutesPerDay

\* checkIndex(logIndex, message, key, name, size): an entry holding the
\* running offset for the first record of a bucket, undefined otherwise;
\* index is logIndex as the call leaves it.
checkIndex(logIndex, message, key, name, size) ==
  LET bucket == Bucket(message.time)
  IN  IF bucket \in logIndex
      THEN [defined |-> FALSE, bucket |-> bucket, offset |-> size,
            index |-> logIndex]
      ELSE [defined |-> TRUE, bucket |-> bucket, offset |-> size,
            index |-> logIndex \cup {bucket}]

NoIndexBuffer == [defined |-> FALSE, bucket |-> NaN, offset |-> 0, index |-> {}]

-----------------------------------------------------------------------------
(* State                                                                   *)

VARIABLES
  root,        \* the character's slimCat directory: [exists, subdirs], each
               \* subdir [name, isDirectory, files], each file [name, content]
  disk,        \* the log directory: key -> [logExists, log, idxExists, idx]
  run,         \* "first" or "second" call of importCharacter
  prev,        \* how the previous call ended: its outcome, the disk a
               \* resolved call left, the key a rejected call was at and the
               \* files of that key as it left them
  pc,          \* position in importCharacter
  i,           \* index of the subdirs loop
  key,         \* conversation key of the current subdirectory
  name,
  isChannel,
  logFd,
  indexFd,
  logIndex,
  size,        \* running offset
  files,       \* the dated, sorted day-files of the current subdirectory
  fileAt,      \* position of the for-of loop in files, from 1
  content,
  scan,        \* [index, start, ignoreLine, ...]: cursor of the while loop
  message,     \* the record being written
  indexBuffer, \* the index entry checkIndex returned for it
  produced,    \* per subdirectory of this call: the records createMessage returned
  openFds,     \* number of file descriptors open in the process
  lines,       \* lines the scan of content has emitted or dropped so far
  progress,    \* the values this call has handed to progress: [i, n] is i / n
  importedSettings  \* importSettings was called by this call

runVars == <<root, run, prev, progress, importedSettings>>

\* The source and the calls made so far.
callVars == <<root, run, prev>>

convVars == <<key, name, isChannel, logIndex, size, files, fileAt>>

fdVars == <<logFd, indexFd, openFds>>

scanVars == <<content, scan, lines>>

pendVars == <<message, indexBuffer>>

vars ==
  <<root, disk, run, prev, pc, i, key, name, isChannel, logFd, indexFd,
    logIndex, size, files, fileAt, content, scan, message, indexBuffer,
    produced, openFds, lines, progress, importedSettings>>

Str_Aria == <<"A", "r", "i", "a">>

\* The character importCharacter is called for.
OwnCharacter == Str_Aria

NoFilePair == [logExists |-> FALSE, log |-> <<>>, idxExists |-> FALSE, idx |-> <<>>]

-----------------------------------------------------------------------------
(* importCharacter (lines 317-440)                                         *)

Subdirs == root.subdirs

\* Values of the locals before the first subdirectory is entered.
IdleLocals ==
  /\ i = 0
  /\ key = <<>> /\ name = <<>> /\ isChannel = FALSE
  /\ logFd = Undefined /\ indexFd = Undefined
  /\ logIndex = {} /\ size = 0
  /\ files = <<>> /\ fileAt = 1
  /\ content = <<>> /\ scan = ScanStart /\ lines = <<>>
  /\ message = UndefinedMessage /\ indexBuffer = NoIndexBuffer
  /\ progress = <<>> /\ importedSettings = FALSE

\* The value of line 330 with the entry counted as done.
ProgressValue_Done(at, n) == [i |-> at + 1, n |-> n]

\* Line 330: the value i / subdirs.length handed to progress.
ProgressValue(at, n) == [i |-> at, n |-> n]

\* NoRoot with the return at line 323 left out: the settings are imported.
NoRoot_NoReturn ==
  /\ pc = "idle"
  /\ ~root.exists
  /\ pc' = "subdir"
  /\ importedSettings' = TRUE
  /\ UNCHANGED <<disk, i, produced, progress>>
  /\ UNCHANGED <<callVars, convVars, fdVars, scanVars, pendVars>>

\* Lines 322-323: no settings directory, nothing to import.
NoRoot ==
  /\ pc = "idle"
  /\ ~root.exists
  /\ pc' = "resolved"
  /\ UNCHANGED <<disk, i, produced>>
  /\ UNCHANGED <<runVars, convVars, fdVars, scanVars, pendVars>>

\* Lines 324-329: the subdirectories are listed and the loop starts.
Start ==
  /\ pc = "idle"
  /\ root.exists
  /\ pc' = "subdir"
  /\ i' = 0
  /\ produced' = [k \in 1..Len(Subdirs) |-> <<>>]
  /\ importedSettings' = TRUE
  /\ UNCHANGED <<disk, progress>>
  /\ UNCHANGED <<callVars, convVars, fdVars, scanVars, pendVars>>

\* Lines 330-338: a reserved name or a plain file is passed over.
SkipSubdir ==
  /\ pc = "subdir"
  /\ i < Len(Subdirs)
  /\ LET subdir == Subdirs[i + 1]
     IN  IsReserved(subdir.name) \/ ~subdir.isDirectory
  /\ i' = i + 1
  /\ progress' = Append(progress, ProgressValue(i, Len(Subdirs)))
  /\ UNCHANGED <<disk, pc, produced, importedSettings>>
  /\ UNCHANGED <<callVars, convVars, fdVars, scanVars, pendVars>>

\* fs.openSync(path, 'a') creates the file when it is missing.
Opened(d, k) == [d EXCEPT ![k].logExists = TRUE, ![k].idxExists = TRUE]

\* Unlinked with the unlink of the index file left out.
Unlinked_LogOnly(d, k) == [d EXCEPT ![k].logExists = FALSE, ![k].log = <<>>]

\* Unlinked with the unlink of the log file left out.
Unlinked_IdxOnly(d, k) == [d EXCEPT ![k].idxExists = FALSE, ![k].idx = <<>>]

\* fs.unlinkSync of the log file and of the index file when they exist.
Unlinked(d, k) == [d EXCEPT ![k] = NoFilePair]

\* Lines 340-374 with the files of the key as after: the subdirectory is
\* classified, the locals are declared and the day-files are dated and sorted.
EnterSubdirWith(after) ==
  /\ pc = "subdir"
  /\ i < Len(Subdirs)
  /\ ~IsReserved(Subdirs[i + 1].name)
  /\ Subdirs[i + 1].isDirectory
  /\ key' = Classify(Subdirs[i + 1].name).key
  /\ name' = Classify(Subdirs[i + 1].name).name
  /\ isChannel' = Classify(Subdirs[i + 1].name).isChannel
  /\ disk' = after
  /\ files' = DatedFiles(Subdirs[i + 1].files)
  /\ logFd' = Undefined
  /\ indexFd' = Undefined
  /\ logIndex' = {}
  /\ size' = 0
  /\ fileAt' = 1
  /\ pc' = "file"
  /\ progress' = Append(progress, ProgressValue(i, Len(Subdirs)))
  /\ UNCHANGED <<i, produced, openFds, importedSettings>>
  /\ UNCHANGED <<callVars, scanVars, pendVars>>

\* EnterSubdir with the declarations of lines 359-360 moved out of the loop:
\* the index state and the running offset of the subdirectory before stay.
EnterSubdir_KeepsOffset ==
  /\ pc = "subdir"
  /\ i < Len(Subdirs)
  /\ ~IsReserved(Subdirs[i + 1].name)
  /\ Subdirs[i + 1].isDirectory
  /\ key' = Classify(Subdirs[i + 1].name).key
  /\ name' = Classify(Subdirs[i + 1].name).name
  /\ isChannel' = Classify(Subdirs[i + 1].name).isChannel
  /\ disk' = Unlinked(disk, Classify(Subdirs[i + 1].name).key)
  /\ files' = DatedFiles(Subdirs[i + 1].files)
  /\ logFd' = Undefined
  /\ indexFd' = Undefined
  /\ fileAt' = 1
  /\ pc' = "file"
  /\ progress' = Append(progress, ProgressValue(i, Len(Subdirs)))
  /\ UNCHANGED <<i, produced, openFds, importedSettings, logIndex, size>>
  /\ UNCHANGED <<callVars, scanVars, pendVars>>

\* EnterSubdir with lines 356-357 left out: the old files are kept.
EnterSubdir_NoUnlink == EnterSubdirWith(disk)

\* EnterSubdir with the two files opened at once, not at the first record.
EnterSubdir_OpensFiles ==
  EnterSubdirWith(Opened(Unlinked(disk, Classify(Subdirs[i + 1].name).key),
                         Classify(Subdirs[i + 1].name).key))

\* Lines 340-374: the files of the key are deleted on the way.
EnterSubdir ==
  EnterSubdirWith(Unlinked(disk, Classify(Subdirs[i + 1].name).key))

\* Line 375: a file whose date is an Invalid Date is passed over.
SkipFile ==
  /\ pc = "file"
  /\ fileAt <= Len(files)
  /\ IsNaN(files[fileAt].date)
  /\ fileAt' = fileAt + 1
  /\ UNCHANGED <<disk, pc, i, produced>>
  /\ UNCHANGED <<key, name, isChannel, logIndex, size, files>>
  /\ UNCHANGED <<runVars, fdVars, scanVars, pendVars>>

\* The content of the day-file called filename in a directory listing.
ContentIn(listing, filename) ==
  listing[CHOOSE k \in 1..Len(listing) : listing[k].name = filename].content

\* The content of the day-file called filename in the current subdirectory.
ContentOf(filename) == ContentIn(Subdirs[i + 1].files, filename)

\* ReadFile with the declarations of lines 377-379 moved out of the loop: the
\* cursor and the ad flag of the file before stay.
ReadFile_KeepsScan ==
  /\ pc = "file"
  /\ fileAt <= Len(files)
  /\ ~IsNaN(files[fileAt].date)
  /\ content' = ContentOf(files[fileAt].name)
  /\ lines' = <<>>
  /\ pc' = "scan"
  /\ UNCHANGED <<disk, i, produced, scan>>
  /\ UNCHANGED <<runVars, convVars, fdVars, pendVars>>

\* Lines 376-379: fs.readFileSync returns the text of the file.
ReadFile ==
  /\ pc = "file"
  /\ fileAt <= Len(files)
  /\ ~IsNaN(files[fileAt].date)
  /\ content' = ContentOf(files[fileAt].name)
  /\ scan' = ScanStart
  /\ lines' = <<>>
  /\ pc' = "scan"
  /\ UNCHANGED <<disk, i, produced>>
  /\ UNCHANGED <<runVars, convVars, fdVars, pendVars>>

\* Line 376: fs.readFileSync throws; nothing catches it.
ReadFileFails ==
  /\ pc = "file"
  /\ fileAt <= Len(files)
  /\ ~IsNaN(files[fileAt].date)
  /\ pc' = "rejected"
  /\ UNCHANGED <<disk, i, produced>>
  /\ UNCHANGED <<runVars, convVars, fdVars, scanVars, pendVars>>

ScanContext == Context(OwnCharacter, name, isChannel, files[fileAt].date)

\* Lines 380-424: the loop runs to the next line createMessage accepts; the
\* files are opened if they are not and checkIndex is asked for an entry.
ScanEmit ==
  /\ pc = "scan"
  /\ LET nx     == ScanToRecord(content, scan, ScanContext)
         closed == indexFd = Undefined \/ logFd = Undefined
         entry  == checkIndex(logIndex, nx.message, key, name, size)
     IN  /\ nx.did = "emit"
         /\ scan' = nx
         /\ message' = nx.message
         /\ produced' = [produced EXCEPT ![i + 1] = Append(@, nx.message)]
         /\ logFd' = IF closed THEN "log" ELSE logFd
         /\ indexFd' = IF closed THEN "idx" ELSE indexFd
         /\ openFds' = IF closed THEN openFds + 2 ELSE openFds
         /\ disk' = IF closed THEN Opened(disk, key) ELSE disk
         /\ indexBuffer' = entry
         /\ logIndex' = entry.index
         /\ pc' = IF entry.defined THEN "writeIndex" ELSE "writeLog"
  /\ lines' = lines
  /\ UNCHANGED <<i, content, key, name, isChannel, size, files, fileAt>>
  /\ UNCHANGED runVars

\* Lines 380-435: the loop reaches the end of the content.
ScanEnd ==
  /\ pc = "scan"
  /\ LET nx == ScanToRecord(content, scan, ScanContext)
     IN  /\ nx.did = "end"
         /\ scan' = nx
  /\ fileAt' = fileAt + 1
  /\ pc' = "file"
  /\ UNCHANGED <<disk, i, produced, content, lines>>
  /\ UNCHANGED <<key, name, isChannel, logIndex, size, files>>
  /\ UNCHANGED <<runVars, fdVars, pendVars>>

\* WriteIndex with the write not awaited: the write of the record is issued
\* with it.
WriteIndex_NotAwaited ==
  /\ pc = "writeIndex"
  /\ disk' = [disk EXCEPT ![key].idx =
                Append(@, [bucket |-> indexBuffer.bucket,
                           offset |-> indexBuffer.offset]),
                          ![key].log =
                Append(@, serializeMessage(message).serialized)]
  /\ pc' = "writeLog"
  /\ UNCHANGED <<i, produced>>
  /\ UNCHANGED <<runVars, convVars, fdVars, scanVars, pendVars>>

\* Line 425: the index entry is appended to the index file.
WriteIndex ==
  /\ pc = "writeIndex"
  /\ disk' = [disk EXCEPT ![key].idx =
                Append(@, [bucket |-> indexBuffer.bucket,
                           offset |-> indexBuffer.offset])]
  /\ pc' = "writeLog"
  /\ UNCHANGED <<i, produced>>
  /\ UNCHANGED <<runVars, convVars, fdVars, scanVars, pendVars>>

\* Line 425: the write is rejected; the await throws out of importCharacter.
WriteIndexFails ==
  /\ pc = "writeIndex"
  /\ pc' = "rejected"
  /\ UNCHANGED <<disk, i, produced>>
  /\ UNCHANGED <<runVars, convVars, fdVars, scanVars, pendVars>>

\* Lines 426-434 with the running offset grown by grown: the record is
\* appended to the log and the cursor moves past the newline.
WriteLogAdding(grown) ==
  /\ pc = "writeLog"
  /\ disk' = [disk EXCEPT ![key].log =
                Append(@, serializeMessage(message).serialized)]
  /\ size' = size + grown
  /\ scan' = AfterWrite(scan)
  /\ pc' = "scan"
  /\ UNCHANGED <<i, produced, content, lines>>
  /\ UNCHANGED <<key, name, isChannel, logIndex, files, fileAt>>
  /\ UNCHANGED <<runVars, fdVars, pendVars>>

\* WriteLog with the running offset grown by the length of the text alone.
WriteLog_TextSize == WriteLogAdding(Len(message.text))

\* WriteLog with line 428 left out: the running offset stays as it is.
WriteLog_SizeKept == WriteLogAdding(0)

\* Lines 426-434: the running offset grows by the size serializeMessage
\* reports.
WriteLog == WriteLogAdding(serializeMessage(message).size)

\* WriteLogFails with the failure caught: the loop goes on with the next line.
WriteLogFails_Swallowed ==
  /\ pc = "writeLog"
  /\ scan' = AfterWrite(scan)
  /\ pc' = "scan"
  /\ UNCHANGED <<disk, i, produced, content, lines>>
  /\ UNCHANGED <<runVars, convVars, fdVars, pendVars>>

\* Line 427: the write is rejected.
WriteLogFails ==
  /\ pc = "writeLog"
  /\ pc' = "rejected"
  /\ UNCHANGED <<disk, i, produced>>
  /\ UNCHANGED <<runVars, convVars, fdVars, scanVars, pendVars>>

\* Lines 437-438: after the last day-file the handles that were opened are
\* closed and the loop goes to the next subdirectory.
CloseSubdir ==
  /\ pc = "file"
  /\ fileAt > Len(files)
  /\ openFds' = openFds - (IF indexFd # Undefined THEN 1 ELSE 0)
                        - (IF logFd # Undefined THEN 1 ELSE 0)
  /\ i' = i + 1
  /\ pc' = "subdir"
  /\ UNCHANGED <<disk, produced, logFd, indexFd>>
  /\ UNCHANGED <<runVars, convVars, scanVars, pendVars>>

\* Line 329: the loop ends and the promise resolves.
Finish ==
  /\ pc = "subdir"
  /\ i = Len(Subdirs)
  /\ pc' = "resolved"
  /\ UNCHANGED <<disk, i, produced>>
  /\ UNCHANGED <<runVars, convVars, fdVars, scanVars, pendVars>>

\* The caller invokes importCharacter again on the unchanged source; the
\* descriptors a rejected call left open stay open.
Again ==
  /\ pc \in {"resolved", "rejected"}
  /\ run = "first"
  /\ run' = "second"
  /\ prev' = [outcome |-> pc,
              disk    |-> IF pc = "resolved" THEN disk
                          ELSE [k \in DOMAIN disk |-> NoFilePair],
              key     |-> IF pc = "rejected" THEN key ELSE <<>>,
              pair    |-> IF pc = "rejected" THEN disk[key] ELSE NoFilePair]
  /\ pc' = "idle"
  /\ i' = 0
  /\ key' = <<>> /\ name' = <<>> /\ isChannel' = FALSE
  /\ logFd' = Undefined /\ indexFd' = Undefined
  /\ logIndex' = {} /\ size' = 0
  /\ files' = <<>> /\ fileAt' = 1
  /\ content' = <<>> /\ scan' = ScanStart /\ lines' = <<>>
  /\ message' = UndefinedMessage /\ indexBuffer' = NoIndexBuffer
  /\ progress' = <<>> /\ importedSettings' = FALSE
  /\ UNCHANGED <<root, disk, produced, openFds>>

Next ==
  \/ NoRoot
  \/ Start
  \/ SkipSubdir
  \/ EnterSubdir
  \/ SkipFile
  \/ ReadFile
  \/ ReadFileFails
  \/ ScanEmit
  \/ ScanEnd
  \/ WriteIndex
  \/ WriteIndexFails
  \/ WriteLog
  \/ WriteLogFails
  \/ CloseSubdir
  \/ Finish

\* importCharacter called once more when the first call has settled.
NextAgain ==
  \/ Next
  \/ Again

-----------------------------------------------------------------------------
(* Source trees and initial states                                         *)

\* Subdirectories of the source root at most.
MaxSubdirs == 2

\* Day-files in the whole source tree at most.
MaxFiles == 3

\* Subdirectories and day-files in the whole source tree at most when
\* importCharacter is called twice.
MaxSubdirsAgain == 1

MaxFilesAgain == 2

Str_Kara == <<"K", "a", "r", "a">>

Str_Frontpage == <<"F", "r", "o", "n", "t", "p", "a", "g", "e">>

\* Names a subdirectory of the source root may have: a private conversation,
\* a known official channel and a reserved name.
SubdirNames == {Str_Kara, Str_Frontpage, Str_Global}

\* Two records of one day, lines ended by "\r\n".
DayA ==
  [name    |-> <<"0", "1", "-", "0", "2", "-", "2", "0", "1", "9", ".", "t", "x", "t">>,
   content |-> <<"[", "0", "9", ":", "0", "5", "]", " ", "K", "a", "r", "a", ":", " ", "h", "i", "\r", "\n", "[", "0", "9", ":", "0", "6", "]", " ", "A", "r", "i", "a", ":", " ", "y", "o", "\r", "\n">>]

\* An earlier day: a line whose clock time is no number, then a record.
DayB ==
  [name    |-> <<"0", "1", "-", "0", "1", "-", "2", "0", "1", "9", ".", "t", "x", "t">>,
   content |-> <<"[", "a", "b", ":", "c", "d", "]", " ", "K", "a", "r", "a", ":", " ", "z", "\n", "[", "1", "0", ":", "0", "0", "]", " ", "K", "a", "r", "a", ":", " ", "a", "\n">>]

\* Month 13.
DayC ==
  [name    |-> <<"1", "3", "-", "0", "1", "-", "2", "0", "1", "9", ".", "t", "x", "t">>,
   content |-> <<"[", "1", "1", ":", "0", "0", "]", " ", "K", "a", "r", "a", ":", " ", "x", "\n">>]

\* A name that holds no date.
DayD ==
  [name    |-> <<"x", "x", "-", "0", "1", "-", "2", "0", "1", "9", ".", "t", "x", "t">>,
   content |-> <<"[", "1", "2", ":", "0", "0", "]", " ", "K", "a", "r", "a", ":", " ", "y", "\n">>]

DayFiles == {DayA, DayB, DayC, DayD}

InListing(l, f) == \E k \in 1..Len(l) : l[k] = f

\* Directory listings of at most n distinct day-files, in every order.
RECURSIVE Listings(_)
Listings(n) ==
  IF n <= 0 THEN {<<>>}
  ELSE LET shorter == Listings(n - 1)
       IN  shorter \cup
           UNION {{Append(l, f) : f \in {g \in DayFiles : ~InListing(l, g)}} :
                  l \in {x \in shorter : Len(x) = n - 1}}

RECURSIVE FilesIn(_)
FilesIn(t) == IF t = <<>> THEN 0 ELSE Len(Head(t).files) + FilesIn(Tail(t))

HasName(t, nm) == \E k \in 1..Len(t) : t[k].name = nm

\* Listings of the source root with at most n subdirectories of distinct
\* names that hold at most budget day-files together; a reserved
\* subdirectory holds no day-file.
RECURSIVE Roots(_, _)
Roots(n, budget) ==
  IF n <= 0 THEN {<<>>}
  ELSE LET shorter == Roots(n - 1, budget)
           full    == {t \in shorter : Len(t) = n - 1}
       IN  shorter \cup
           UNION {UNION {{Append(t, [name |-> nm, isDirectory |-> TRUE,
                                     files |-> l]) :
                          l \in IF IsReserved(nm) THEN {<<>>}
                                ELSE Listings(budget - FilesIn(t))} :
                         nm \in {x \in SubdirNames : ~HasName(t, x)}} :
                  t \in full}

Keys == {Classify(nm).key : nm \in SubdirNames \ {Str_Global}}

EmptyDisk == [k \in Keys |-> NoFilePair]

\* A record the running client logged before the import.
OldMessage ==
  [type |-> "Message", sender |-> Str_Kara, text |-> <<"o", "l", "d">>,
   time |-> NewDate(2018, 11, 31) + 60]

\* A log directory in which every conversation already has a log of one
\* record and its index.
OldDisk ==
  [k \in Keys |->
     [logExists |-> TRUE, log |-> <<serializeMessage(OldMessage).serialized>>,
      idxExists |-> TRUE,
      idx |-> <<[bucket |-> Bucket(OldMessage.time), offset |-> 0]>>]]

NoPrev ==
  [outcome |-> "none", disk |-> EmptyDisk, key |-> <<>>, pair |-> NoFilePair]

\* The source trees of at most n subdirectories and budget day-files, and no
\* source at all.
Sources(n, budget) ==
  {[exists |-> FALSE, subdirs |-> <<>>]} \cup
  {[exists |-> TRUE, subdirs |-> t] : t \in Roots(n, budget)}

InitWith(sources, disks) ==
  /\ root \in sources
  /\ disk \in disks
  /\ run = "first"
  /\ prev = NoPrev
  /\ pc = "idle"
  /\ produced = <<>>
  /\ openFds = 0
  /\ IdleLocals

\* The log directory is empty or holds older logs.
Init == InitWith(Sources(MaxSubdirs, MaxFiles), {EmptyDisk, OldDisk})

\* One call of importCharacter.
Spec == Init /\ [][Next]_vars

InitAgain ==
  InitWith(Sources(MaxSubdirsAgain, MaxFilesAgain), {EmptyDisk, OldDisk})

\* Two calls of importCharacter in succession on one source.
SpecAgain == InitAgain /\ [][NextAgain]_vars

-----------------------------------------------------------------------------
(* The scanning loop alone, one iteration at a time                        *)

\* Pieces a day-file content is put together from, at most.
MaxPieces == 5

\* A line with a header, the two newlines, an ad and two texts with no
\* bracket.
TokPieces ==
  {<<"[", "0", "9", ":", "0", "5", "]", " ", "K", "a", "r", "a", ":", " ", "h", "i">>,
   <<"\n">>,
   <<"\r", "\n">>,
   <<"A", "d", " ", "a", "t", " ", "[", "x", "]", ":", " ", "b", "u", "y">>,
   <<"b">>,
   <<"h", "e", "l", "l", "o">>}

RECURSIVE TokContents(_)
TokContents(n) ==
  IF n <= 0 THEN {<<>>}
  ELSE {<<>>} \cup {c \o piece : c \in TokContents(n - 1), piece \in TokPieces}

\* A day-file of 2019-01-02 in the private conversation with Kara is read.
TokInit ==
  /\ content \in TokContents(MaxPieces)
  /\ scan = ScanStart
  /\ lines = <<>>
  /\ pc = "scan"
  /\ root = [exists |-> TRUE,
             subdirs |-> <<[name |-> Str_Kara, isDirectory |-> TRUE,
                            files |-> <<>>]>>]
  /\ disk = EmptyDisk
  /\ run = "first"
  /\ prev = NoPrev
  /\ i = 0
  /\ key = Classify(Str_Kara).key
  /\ name = Classify(Str_Kara).name
  /\ isChannel = Classify(Str_Kara).isChannel
  /\ logFd = Undefined /\ indexFd = Undefined
  /\ logIndex = {} /\ size = 0
  /\ files = <<[name |-> DayA.name, date |-> FileDate(DayA.name)]>>
  /\ fileAt = 1
  /\ message = UndefinedMessage /\ indexBuffer = NoIndexBuffer
  /\ produced = <<>>
  /\ openFds = 0
  /\ progress = <<>> /\ importedSettings = TRUE

\* What an iteration that ended a line leaves in lines: the line, the 0-based
\* position and the character of the newline that ended it, and the record.
EndedLine(nx, at) ==
  [did |-> nx.did, line |-> nx.line, at |-> at, char |-> nx.char,
   message |-> nx.message]

\* One iteration of the loop at line 380 that does "did"; the writes of an
\* emitted record are taken to succeed.
Iteration(did) ==
  /\ pc = "scan"
  /\ scan.index < Len(content)
  /\ LET nx == ScanStep(content, scan, ScanContext)
     IN  /\ nx.did = did
         /\ scan' = IF did = "emit" THEN AfterWrite(nx) ELSE nx
         /\ lines' = IF did \in {"emit", "drop"}
                     THEN Append(lines, EndedLine(nx, scan.index))
                     ELSE lines
  /\ UNCHANGED <<disk, pc, i, produced, content>>
  /\ UNCHANGED <<runVars, convVars, fdVars, pendVars>>

IterAd == Iteration("ad")

IterResume == Iteration("resume")

IterSkip == Iteration("skip")

IterDrop == Iteration("drop")

IterEmit == Iteration("emit")

\* The loop condition at line 380 fails.
IterEnd ==
  /\ pc = "scan"
  /\ scan.index >= Len(content)
  /\ pc' = "scanned"
  /\ UNCHANGED <<disk, i, produced>>
  /\ UNCHANGED <<runVars, convVars, fdVars, scanVars, pendVars>>

TokNext ==
  \/ IterAd
  \/ IterResume
  \/ IterSkip
  \/ IterDrop
  \/ IterEmit
  \/ IterEnd

\* The scan of one day-file, iteration by iteration.
TokSpec == TokInit /\ [][TokNext]_vars

\* Pieces of a day-file content whose scan is followed to its end, at most.
MaxPiecesFair == 3

TokFairInit == TokInit /\ content \in TokContents(MaxPiecesFair)

\* The loop condition at line 380 holds: an iteration can run.
IterateEnabled == pc = "scan" /\ scan.index < Len(content)

\* An iteration of the loop at line 380, whatever it does.
Iterate == IterAd \/ IterResume \/ IterSkip \/ IterDrop \/ IterEmit

\* The scan of one day-file as the engine runs it: the loop is synchronous
\* code and the writes are taken to settle, so the loop is left when its
\* condition fails and an iteration that can run does.  The second
\* condition is weak fairness of Iterate with its enabling condition
\* written out as the loop condition.
TokFair ==
  /\ TokFairInit /\ [][TokNext]_vars
  /\ WF_vars(IterEnd)
  /\ ([]<><<Iterate>>_vars \/ []<>~IterateEnabled)

-----------------------------------------------------------------------------
(* createMessage alone, applied to one line                                *)

\* Characters a text is longer than the cap of createMessage, at most.
MaxOver == 1

\* The starts of a line: the other party, no space behind the bracket, a
\* time that ends in AM, the owner, a name the name pattern has to find, no
\* colon behind the sender, a roll, a roll whose sender field is not closed,
\* a clock time that is no number, an unclosed roll behind a long time
\* bracket, and no bracket at all.
MsgHeads ==
  {<<"[", "0", "9", ":", "0", "5", "]", " ", "K", "a", "r", "a", ":", " ">>,
   <<"[", "0", "9", ":", "0", "5", "P", "M", "]", "K", "a", "r", "a", ":", " ">>,
   <<"[", "0", "9", ":", "1", "5", "A", "M", "]", " ", "K", "a", "r", "a", ":", " ">>,
   <<"[", "0", "9", ":", "0", "5", "]", " ", "A", "r", "i", "a", ":", " ">>,
   <<"[", "0", "9", ":", "0", "5", "]", " ", "B", "o", "b", ":", " ">>,
   <<"[", "0", "9", ":", "0", "5", "]", " ", "B", "o", "b", " ">>,
   <<"[", "0", "9", ":", "0", "5", "]", " ", "[", "u", "s", "e", "r", "]", "B", "o", "b", "[", "/", "u", "s", "e", "r", "]", " ", "r", "o", "l", "l", "s", " ">>,
   <<"[", "0", "9", ":", "0", "5", "]", " ", "[", "u", "s", "e", "r", "]", "B", "o", "b">>,
   <<"[", "a", "b", ":", "c", "d", "]", " ", "K", "a", "r", "a", ":", " ">>,
   <<"[", "0", "9", ":", "0", "5", " ", "0", "1", "/", "0", "3", "/", "1", "9", "]", " ", "[", "u", "s", "e", "r", "]", "B", "o", "b">>,
   <<"K", "a", "r", "a", ":", " ">>}

\* A text of n characters.
LongText(n) == [k \in 1..n |-> "a"]

\* What follows the start of a line: short texts, and texts one character
\* short of the cap of createMessage up to MaxOver characters over it.
MsgBodies ==
  {<<>>,
   <<"h", "i">>,
   <<"H", "e", "l", "l", "o", " ", "t", "h", "e", "r", "e">>,
   <<"/", "m", "e", " ", "w", "a", "v", "e", "s">>}
  \cup {LongText(n) : n \in (MaxTextLen - 1)..(MaxTextLen + MaxOver)}

\* A line of a day-file of 2019-03-01 is about to be handed to createMessage,
\* in the private conversation with Kara or in a channel of that name.
MsgInit ==
  /\ content \in {head \o body : head \in MsgHeads, body \in MsgBodies}
  /\ isChannel \in BOOLEAN
  /\ name = Str_Kara
  /\ key = Classify(Str_Kara).key
  /\ files = <<[name |-> <<>>, date |-> NewDate(2019, 2, 1)]>>
  /\ fileAt = 1
  /\ message = UndefinedMessage
  /\ pc = "line"
  /\ root = [exists |-> TRUE, subdirs |-> <<>>]
  /\ disk = EmptyDisk
  /\ run = "first"
  /\ prev = NoPrev
  /\ i = 0
  /\ logFd = Undefined /\ indexFd = Undefined
  /\ logIndex = {} /\ size = 0
  /\ scan = ScanStart /\ lines = <<>>
  /\ indexBuffer = NoIndexBuffer
  /\ produced = <<>>
  /\ openFds = 0
  /\ progress = <<>> /\ importedSettings = TRUE

\* The call of createMessage at lines 402-408.
CreateMessage ==
  /\ pc = "line"
  /\ message' = createMessage(content, OwnCharacter, name, isChannel,
                              files[fileAt].date)
  /\ pc' = "made"
  /\ UNCHANGED <<disk, i, produced, indexBuffer>>
  /\ UNCHANGED <<runVars, convVars, fdVars, scanVars>>

\* createMessage applied to one line.
MsgSpec == MsgInit /\ [][CreateMessage]_vars

-----------------------------------------------------------------------------
(* importCharacter on subdirectories of many names                         *)

\* Subdirectories of the source root at most, of the names of ClassNames.
MaxClassSubdirs == 2

Str_MyFriend == <<"M", "y", "F", "r", "i", "e", "n", "d">>

Str_DevFrontpage ==
  <<"D", "e", "v", " ", "(", "F", "r", "o", "n", "t", "p", "a", "g", "e", ")">>

Str_BarOpen ==
  <<"B", "a", "r", " ", "(", "O", "p", "e", "n", ")", " ", "(", "A", "D", "H", "-", "1", ")">>

\* A known official channel, a private conversation, a channel whose code is
\* the name of the official channel, a channel whose display name holds a
\* parenthesis, and the two reserved names.
ClassNames ==
  {Str_Frontpage, Str_MyFriend, Str_DevFrontpage, Str_BarOpen, Str_Global,
   Str_Notifications}

\* An empty day-file.
DayE ==
  [name    |-> <<"0", "1", "-", "0", "3", "-", "2", "0", "1", "9", ".", "t", "x", "t">>,
   content |-> <<>>]

\* A day-file that holds an ad and nothing else.
DayF ==
  [name    |-> <<"0", "1", "-", "0", "4", "-", "2", "0", "1", "9", ".", "t", "x", "t">>,
   content |-> <<"A", "d", " ", "a", "t", " ", "[", "x", "]", ":", " ", "b", "u", "y", "\n", "n", "o", "w", "\n">>]

\* A day-file that holds a line with no "]" and nothing else.
DayG ==
  [name    |-> <<"0", "1", "-", "0", "5", "-", "2", "0", "1", "9", ".", "t", "x", "t">>,
   content |-> <<"h", "e", "l", "l", "o", "\n">>]

\* A day-file of a later day that holds one line.
DayH ==
  [name    |-> <<"0", "1", "-", "0", "6", "-", "2", "0", "1", "9", ".", "t", "x", "t">>,
   content |-> <<"[", "1", "0", ":", "0", "0", "]", " ", "K", "a", "r", "a", ":", " ", "a", "\n">>]

\* A subdirectory holds one day-file: with records, with no date in its
\* name, empty, with ads only or with no line that has a "]"; or the
\* day-file with ads only and one of a later day.
ClassListings(nm) ==
  IF IsReserved(nm) THEN {<<>>}
  ELSE {<<DayA>>, <<DayD>>, <<DayE>>, <<DayF>>, <<DayG>>, <<DayF, DayH>>}

\* Listings of the source root with at most n subdirectories of distinct
\* names.
RECURSIVE ClassRoots(_)
ClassRoots(n) ==
  IF n <= 0 THEN {<<>>}
  ELSE ClassRoots(n - 1) \cup
       UNION {UNION {{Append(t, [name |-> nm, isDirectory |-> TRUE,
                                 files |-> l]) : l \in ClassListings(nm)} :
                     nm \in {x \in ClassNames : ~HasName(t, x)}} :
              t \in {u \in ClassRoots(n - 1) : Len(u) = n - 1}}

ClassKeys == {Classify(nm).key : nm \in {x \in ClassNames : ~IsReserved(x)}}

\* A log directory in which every conversation has a log of one record.
ClassDisk == [k \in ClassKeys |-> OldDisk[Classify(Str_Kara).key]]

ClassInit ==
  InitWith({[exists |-> FALSE, subdirs |-> <<>>]} \cup
           {[exists |-> TRUE, subdirs |-> t] : t \in ClassRoots(MaxClassSubdirs)},
           {ClassDisk})

\* One call of importCharacter on such a source.
ClassSpec == ClassInit /\ [][Next]_vars

-----------------------------------------------------------------------------
(* What a call that completes on an empty log directory leaves             *)

\* The records the scan of content yields from cursor st on.
RECURSIVE RecordsFrom(_, _, _)
RecordsFrom(content_, st, ctx) ==
  IF ScanToRecord(content_, st, ctx).did = "end" THEN <<>>
  ELSE <<ScanToRecord(content_, st, ctx).message>>
       \o RecordsFrom(content_, AfterWrite(ScanToRecord(content_, st, ctx)), ctx)

\* The records of the dated files from position k on, in the order of dated.
RECURSIVE RecordsOfFiles(_, _, _)
RecordsOfFiles(subdir, dated, k) ==
  IF k > Len(dated) THEN <<>>
  ELSE (IF IsNaN(dated[k].date) THEN <<>>
        ELSE RecordsFrom(ContentIn(subdir.files, dated[k].name), ScanStart,
                         Context(OwnCharacter, Classify(subdir.name).name,
                                 Classify(subdir.name).isChannel,
                                 dated[k].date)))
       \o RecordsOfFiles(subdir, dated, k + 1)

\* The index entries of records from position n on, for the index state
\* logIndex_ and the running offset size_.
RECURSIVE EntriesOf(_, _, _, _)
EntriesOf(records, n, logIndex_, size_) ==
  IF n > Len(records) THEN <<>>
  ELSE (IF checkIndex(logIndex_, records[n], <<>>, <<>>, size_).defined
        THEN <<[bucket |-> Bucket(records[n].time), offset |-> size_]>>
        ELSE <<>>)
       \o EntriesOf(records, n + 1,
                    checkIndex(logIndex_, records[n], <<>>, <<>>, size_).index,
                    size_ + serializeMessage(records[n]).size)

Serializations(records) ==
  [n \in 1..Len(records) |-> serializeMessage(records[n]).serialized]

PairOf(records) ==
  IF records = <<>> THEN NoFilePair
  ELSE [logExists |-> TRUE, log |-> Serializations(records),
        idxExists |-> TRUE, idx |-> EntriesOf(records, 1, {}, 0)]

Imported(subdir) == ~IsReserved(subdir.name) /\ subdir.isDirectory

\* The log directory after the first n subdirectories, from an empty one.
RECURSIVE FreshDisk(_, _)
FreshDisk(subdirs, n) ==
  IF n = 0 THEN EmptyDisk
  ELSE IF ~Imported(subdirs[n]) THEN FreshDisk(subdirs, n - 1)
  ELSE [FreshDisk(subdirs, n - 1) EXCEPT
          ![Classify(subdirs[n].name).key] =
            PairOf(RecordsOfFiles(subdirs[n], DatedFiles(subdirs[n].files), 1))]

-----------------------------------------------------------------------------
(* Claims                                                                  *)

\* Sum of the sizes of the first n records of a log.
RECURSIVE PrefixSize(_, _)
PrefixSize(log, n) ==
  IF n = 0 THEN 0 ELSE PrefixSize(log, n - 1) + ByteLength(log[n])

\* The record boundaries of a log: 0 and the end of each record.
Boundaries(log) == {PrefixSize(log, n) : n \in 0..Len(log)}

\* C1: in every reachable state of a call, also between the index write and
\* the log write of a record and after a failed write, every entry of every
\* index file holds an offset that is a record boundary of the log file of
\* the same key.
C1_OffsetsAreBoundaries ==
  \A k \in Keys :
    \A e \in 1..Len(disk[k].idx) :
      disk[k].idx[e].offset \in Boundaries(disk[k].log)

\* C1 witness: a log write failed after the second index entry of a
\* conversation was written; the entry points at the end of the log.
C1_Witness ==
  /\ pc = "rejected"
  /\ scan.did = "emit"
  /\ Len(disk[key].idx) >= 2
  /\ disk[key].idx[Len(disk[key].idx)].offset = size
  /\ size > 0
  /\ PrefixSize(disk[key].log, Len(disk[key].log)) = size

ImportedAt(j) == Imported(Subdirs[j])

KeyAt(j) == Classify(Subdirs[j].name).key

DistinctKeys ==
  \A a, b \in {j \in 1..Len(Subdirs) : ImportedAt(j)} :
    a # b => KeyAt(a) # KeyAt(b)

C3_SecondRunSameFiles ==
  (run = "second" /\ pc = "resolved" /\ prev.outcome = "resolved") =>
    \A k \in Keys : disk[k] = prev.disk[k]

\* C3 witness: both calls resolved and a conversation holds two records and
\* two index entries or more.
C3_Witness ==
  /\ run = "second"
  /\ pc = "resolved"
  /\ prev.outcome = "resolved"
  /\ \E k \in Keys : Len(disk[k].log) >= 2 /\ Len(disk[k].idx) >= 2

\* C4: a write that fails (the file is as before) makes the call reject, and
\* a call that has rejected writes nothing more and stays rejected.
C4_WriteFailureRejects ==
  [][/\ (pc \in {"writeIndex", "writeLog"} /\ disk' = disk)
          => pc' = "rejected"
     /\ pc = "rejected" => (pc' = "rejected" /\ disk' = disk)]_vars

\* C4 witness: the call rejected at the log write of a record whose index
\* entry was written.
C4_Witness ==
  /\ pc = "rejected"
  /\ scan.did = "emit"
  /\ indexBuffer.defined
  /\ Len(disk[key].idx) > Len(disk[key].log)

\* C5: when the first call rejected and left a log or an index file of the
\* conversation it was at, a second call that resolves leaves for that
\* conversation what a call that completes on an empty log directory leaves.
C5_RerunAfterFailure ==
  (/\ run = "second" /\ pc = "resolved" /\ prev.outcome = "rejected"
   /\ (prev.pair.logExists \/ prev.pair.idxExists)) =>
    disk[prev.key] = FreshDisk(Subdirs, Len(Subdirs))[prev.key]

\* C5 witness: the first call left an index entry with no record behind it,
\* the second call resolved and the log holds two records or more.
C5_Witness ==
  /\ run = "second"
  /\ pc = "resolved"
  /\ prev.outcome = "rejected"
  /\ Len(prev.pair.idx) > Len(prev.pair.log)
  /\ Len(disk[prev.key].log) >= 2

\* C6: a call that is at a day-file it cannot read does not reject at that
\* file; it goes on with the files that remain.
C6_UnreadableFileSkipped ==
  [][pc = "file" => pc' # "rejected"]_vars

\* Days of month m (1 to 12) of year y.
DaysInMonth(y, m) ==
  IF m = 2
  THEN (IF (y % 4 = 0 /\ y % 100 # 0) \/ y % 400 = 0 THEN 29 ELSE 28)
  ELSE IF m \in {4, 6, 9, 11} THEN 30 ELSE 31

\* The three numbers of a file name are a month, a day of it and a year.
IsCalendarDate(month, day, year) ==
  /\ ~IsNaN(month) /\ ~IsNaN(day) /\ ~IsNaN(year)
  /\ month \in 1..12
  /\ day >= 1
  /\ day <= DaysInMonth(year, month)

\* The file name encodes a valid MM-DD-YYYY calendar date.
ValidDateName(filename) ==
  IsCalendarDate(PartInt(Split(Basename(filename), "-"), 0),
                 PartInt(Split(Basename(filename), "-"), 1),
                 PartInt(Split(Basename(filename), "-"), 2))

\* C7: the content of a day-file is scanned for records only when the name
\* of the file encodes a valid MM-DD-YYYY calendar date, so a file such as
\* "13-01-2019.txt" puts no record into the log.
C7_InvalidDateNoRecord ==
  pc \in {"scan", "writeIndex", "writeLog"} => ValidDateName(files[fileAt].name)

\* C8: while a day-file is scanned, no day-file of the subdirectory that
\* came before it in the processing order and has a parsable date has a
\* later date.
C8_AscendingDates ==
  pc \in {"scan", "writeIndex", "writeLog"} =>
    \A before \in 1..(fileAt - 1) :
      ~IsNaN(files[before].date) => files[before].date <= files[fileAt].date

\* C9: no log holds a record whose time is NaN.
C9_NoNaNTime ==
  \A k \in Keys :
    \A n \in 1..Len(disk[k].log) : ~IsNaN(disk[k].log[n][1])

\* The 0-based position of the text behind the newline that ended a line.
BehindNewline(ended) == ended.at + (IF ended.char = "\r" THEN 2 ELSE 1)

\* C10: every newline the scan ended the logical line of a record at is
\* followed by text that matches the header pattern, or is the last thing in
\* the file.
C10_LineEndsBeforeHeader ==
  \A n \in 1..Len(lines) :
    \/ lines[n].did # "emit"
    \/ BehindNewline(lines[n]) >= Len(content)
    \/ LogRegexTest(Substr(content, BehindNewline(lines[n]), HeaderWindow))

\* The 0-based position in content at which the line of an ended line starts.
StartOf(ended) == ended.at - Len(ended.line)

\* An ad line starts at 0-based p of content: p is the start of the file or
\* follows a newline, and the ad-announcement marker is matched there within
\* AdWindow characters.
AdLineAt(p) ==
  /\ p < Len(content)
  /\ (p = 0 \/ content[p] = "\n")
  /\ AdAtMatches(Substr(content, p, AdWindow), 0)

\* C11: no record is emitted whose source line holds the start of an ad
\* line, so no character of an ad line is part of a record.
C11_NoRecordFromAd ==
  \A n \in 1..Len(lines) :
    lines[n].did = "emit" =>
      \A p \in StartOf(lines[n])..(lines[n].at - 1) : ~AdLineAt(p)

\* C12: a logical line with no "]" gave no record (createMessage returned
\* undefined for it), the scan is not stopped by it and the cursor is past
\* the newline that ended it.
C12_NoBracketDropped ==
  \A n \in 1..Len(lines) :
    IndexOf(lines[n].line, "]", 0) = -1 =>
      /\ lines[n].did = "drop"
      /\ lines[n].message = UndefinedMessage
      /\ pc \in {"scan", "scanned"}
      /\ scan.index > lines[n].at
      /\ disk = EmptyDisk

\* C12 witness: a line with no "]" was dropped and a later line of the file
\* gave a record.
C12_Witness ==
  \E n \in 1..Len(lines) :
    /\ lines[n].did = "drop"
    /\ lines[n].line # <<>>
    /\ IndexOf(lines[n].line, "]", 0) = -1
    /\ \E later \in (n + 1)..Len(lines) : lines[later].did = "emit"

Importing == pc \in {"file", "scan", "writeIndex", "writeLog"}

\* C14: while a subdirectory is imported, no subdirectory of another name
\* that was imported before it in the call resolved to the same key.
C14_KeysUnique ==
  Importing =>
    \A j \in 1..i :
      (ImportedAt(j) /\ Subdirs[j].name # Subdirs[i + 1].name) =>
        KeyAt(j) # key

\* 0-based position of the last "(" of s, -1 when there is none.
LastIndexOf(s, ch) ==
  IF \A p \in 1..Len(s) : s[p] # ch THEN -1
  ELSE (CHOOSE p \in 1..Len(s) :
          s[p] = ch /\ \A q \in (p + 1)..Len(s) : s[q] # ch) - 1

\* The name ends in a parenthesized code.
HasCodeSuffix(s) ==
  /\ Len(s) >= 2
  /\ s[Len(s)] = ")"
  /\ LastIndexOf(s, "(") # -1

\* The text before the parenthesis of the suffix, without the space that
\* separates the two.
DisplayName(s) ==
  IF CharAt(s, LastIndexOf(s, "(") - 1) = " "
  THEN Substring(s, 0, LastIndexOf(s, "(") - 1)
  ELSE Substring(s, 0, LastIndexOf(s, "("))

\* The three rules in their order.
RuleClass(s) ==
  IF HasCodeSuffix(s)
  THEN [isChannel |-> TRUE,
        key  |-> ToLowerCase(<<"#">> \o Substring(s, LastIndexOf(s, "(") + 1,
                                                  Len(s) - 1)),
        name |-> DisplayName(s)]
  ELSE IF s \in knownOfficialChannels
  THEN [isChannel |-> TRUE, key |-> ToLowerCase(<<"#">> \o s), name |-> s]
  ELSE [isChannel |-> FALSE, key |-> ToLowerCase(s), name |-> s]

\* C15: the subdirectory that is imported has the kind, the key and the
\* display name the first of the three rules that applies gives its name.
C15_ClassifiedByRules ==
  Importing =>
    /\ isChannel = RuleClass(Subdirs[i + 1].name).isChannel
    /\ key = RuleClass(Subdirs[i + 1].name).key
    /\ name = RuleClass(Subdirs[i + 1].name).name

\* C16: the k-th value handed to progress is (k - 1) / N for the N entries
\* of the source root, it is handed over before entry k - 1 is processed,
\* and every value is at least 0 and less than 1; so the values increase
\* strictly and 1 is never reported.
C16_ProgressFractions ==
  /\ \A k \in 1..Len(progress) :
       /\ progress[k].i = k - 1
       /\ progress[k].n = Len(Subdirs)
       /\ 0 <= progress[k].i
       /\ progress[k].i < progress[k].n
  /\ \A k \in 1..(Len(progress) - 1) :
       progress[k].i * progress[k + 1].n < progress[k + 1].i * progress[k].n
  /\ pc = "subdir" => Len(progress) = i
  /\ pc \in {"file", "scan", "writeIndex", "writeLog"} => Len(progress) = i + 1

\* C16 witness: a call over two entries has resolved after it reported 0/2
\* and 1/2.
C16_Witness ==
  /\ pc = "resolved"
  /\ Len(Subdirs) = 2
  /\ progress = <<[i |-> 0, n |-> 2], [i |-> 1, n |-> 2]>>

\* C17: with no source root the call never rejects and never gets past its
\* start, progress is not called, importSettings is not called, no file
\* descriptor is opened, and no step changes a log or an index file.
C17_NoRootNoOp ==
  /\ [](~root.exists =>
          /\ pc \in {"idle", "resolved"}
          /\ progress = <<>>
          /\ ~importedSettings
          /\ openFds = 0)
  /\ [][~root.exists => disk' = disk]_vars

\* C17 witness: the call has resolved with no source root and the logs that
\* were there are still there.
C17_Witness ==
  /\ ~root.exists
  /\ pc = "resolved"
  /\ disk = ClassDisk

\* C18: as long as the subdirectory that is imported has yielded no record,
\* its file handles are not opened, its log file and its index file do not
\* exist and no descriptor is open.
C18_NoRecordNoFile ==
  (pc \in {"file", "scan"} /\ produced[i + 1] = <<>>) =>
    /\ logFd = Undefined
    /\ indexFd = Undefined
    /\ ~disk[key].logExists
    /\ ~disk[key].idxExists
    /\ openFds = 0

\* C18 witness: the only day-file of a subdirectory has a date and a content,
\* it was scanned to its end and gave no record.
C18_Witness ==
  /\ pc = "file"
  /\ Len(files) = 1
  /\ fileAt = 2
  /\ ~IsNaN(files[1].date)
  /\ content # <<>>
  /\ scan.did = "end"
  /\ produced[i + 1] = <<>>
  /\ logFd = Undefined
  /\ ~disk[key].logExists

\* C19: the step that processes an entry named "Global" or "!Notifications"
\* classifies nothing, leaves every log and index file as it is, opens no
\* descriptor and goes on with the next entry.
C19_ReservedSkipped ==
  [][(/\ pc = "subdir"
      /\ i < Len(Subdirs)
      /\ Subdirs[i + 1].name \in {Str_Global, Str_Notifications}) =>
       (/\ pc' = "subdir"
        /\ i' = i + 1
        /\ key' = key /\ name' = name /\ isChannel' = isChannel
        /\ disk' = disk
        /\ openFds' = openFds /\ logFd' = logFd /\ indexFd' = indexFd)]_vars

\* C19 witness: the entry "!Notifications" was passed over behind an entry
\* "Global" and the logs are what they were before the call.
C19_Witness ==
  /\ pc = "subdir"
  /\ i = 2
  /\ Subdirs[1].name = Str_Global
  /\ Subdirs[2].name = Str_Notifications
  /\ key = <<>>
  /\ disk = ClassDisk

Str_ExampleLine ==
  <<"[", "0", "9", ":", "0", "5", "P", "M", "]", "K", "a", "r", "a", ":", " ", "H", "e", "l", "l", "o", " ", "t", "h", "e", "r", "e">>

\* C20: the line "[09:05PM]Kara: Hello there" of the private conversation
\* "Kara" of the owner "Aria" gives a Message of the sender "Kara" with the
\* text "Hello there", timed at 09:05 on the date of the file.
C20_ExampleLine ==
  (pc = "made" /\ content = Str_ExampleLine /\ ~isChannel) =>
    /\ message.type = "Message"
    /\ message.sender = Str_Kara
    /\ message.text = <<"H", "e", "l", "l", "o", " ", "t", "h", "e", "r", "e">>
    /\ message.time = files[fileAt].date + 9 * 60 + 5

\* The offsets of a log at which a complete record starts.
RecordStarts(log) == {PrefixSize(log, n) : n \in 0..(Len(log) - 1)}

\* C21: in every reachable state, every entry of every index file holds an
\* offset at which a complete record of the log file of the same key
\* starts.
C21_RecordAtOffset ==
  \A k \in Keys :
    \A e \in 1..Len(disk[k].idx) :
      disk[k].idx[e].offset \in RecordStarts(disk[k].log)

\* No log file changes in the step.
LogsKept == \A k \in DOMAIN disk : disk'[k].log = disk[k].log

\* No index file changes in the step.
IndexesKept == \A k \in DOMAIN disk : disk'[k].idx = disk[k].idx

\* C22: while the loop scans, nothing is written; the step behind it awaits
\* the index write when there is an entry and the log write when there is
\* none; the index write appends the entry alone and is followed by the log
\* write; the log write appends the record alone and the running offset
\* grows in that step and in no other; a failed write changes nothing.
C22_WritesSequenced ==
  [][/\ pc = "scan" =>
          /\ LogsKept /\ IndexesKept /\ size' = size
          /\ pc' = "writeIndex" => indexBuffer'.defined
          /\ pc' = "writeLog" => ~indexBuffer'.defined
     /\ pc = "writeIndex" =>
          /\ LogsKept /\ size' = size
          /\ \/ /\ pc' = "writeLog"
                /\ disk' = [disk EXCEPT ![key].idx =
                              Append(@, [bucket |-> indexBuffer.bucket,
                                         offset |-> size])]
             \/ pc' = "rejected" /\ disk' = disk
     /\ pc = "writeLog" =>
          /\ IndexesKept
          /\ \/ /\ pc' = "scan"
                /\ disk' = [disk EXCEPT ![key].log = Append(@, Encode(message))]
                /\ size' = size + ByteLength(Encode(message))
             \/ pc' = "rejected" /\ disk' = disk /\ size' = size]_vars

\* C22 witness: the second record of a conversation is written behind the
\* index entry of the first.
C22_Witness ==
  /\ pc = "scan"
  /\ scan.did = "wrote"
  /\ Len(disk[key].idx) >= 1
  /\ Len(disk[key].log) >= 2
  /\ size = PrefixSize(disk[key].log, Len(disk[key].log))

\* The byte length of a log.
LogLength(log) == PrefixSize(log, Len(log))

\* A record has been passed to checkIndex and is not written yet.
RecordPending == pc \in {"writeIndex", "writeLog"}

\* C23: whenever a record has been passed to checkIndex, the offset passed
\* with it and the running offset are the byte length of the log file of the
\* conversation, which is 0 when no record is written yet; within a
\* conversation the running offset never decreases.
C23_OffsetIsLogLength ==
  /\ [](RecordPending =>
          /\ indexBuffer.offset = size
          /\ size = LogLength(disk[key].log)
          /\ disk[key].log = <<>> => size = 0)
  /\ [][Importing => size' >= size]_vars

\* C23 witness: a record is passed to checkIndex behind a written one, with a
\* running offset above 0.
C23_Witness ==
  /\ RecordPending
  /\ Len(disk[key].log) >= 1
  /\ size > 0
  /\ indexBuffer.offset = size

\* No subdirectory of key k has yielded a record so far in the run.
NoRecordFor(k) ==
  \A j \in 1..Len(produced) : KeyAt(j) = k => produced[j] = <<>>

\* C24: in every reachable state, the log file and the index file of a key
\* for which no subdirectory has yielded a record so far in the run are the
\* ones that were there before the run.
C24_OldFilesKeptUntilRecord ==
  \A k \in DOMAIN disk : NoRecordFor(k) => disk[k] = ClassDisk[k]

\* C25: the step that opens the log and index handles of a conversation is
\* the first of the run to do so: no subdirectory processed before it has
\* the same key and yielded a record, for which the handles of that key were
\* opened and closed already.
C25_KeyOpenedOnce ==
  [][openFds' > openFds =>
       \A j \in 1..i : KeyAt(j) = key => produced[j] = <<>>]_vars

\* C26: when the call has settled, resolved or rejected, no descriptor that
\* was opened during the run is open.
C26_NoHandleLeftOpen ==
  pc \in {"resolved", "rejected"} => openFds = 0

\* What the subdirectory at position j yields alone, from an empty log
\* directory.
AloneAt(j) ==
  PairOf(RecordsOfFiles(Subdirs[j], DatedFiles(Subdirs[j].files), 1))

\* C27: the step that enters a subdirectory leaves the running offset at 0,
\* the index state empty and both handles undefined; while a subdirectory is
\* imported the first entry of its index file holds offset 0; and the step
\* that leaves a subdirectory leaves, as the files of its key, the files the
\* subdirectory yields alone from an empty log directory, whatever the
\* subdirectories before it wrote.
C27_FreshPerSubdirectory ==
  /\ [](Importing =>
          (disk[key].idx # <<>> => disk[key].idx[1].offset = 0))
  /\ [][/\ (pc = "subdir" /\ pc' = "file") =>
             /\ size' = 0
             /\ logIndex' = {}
             /\ logFd' = Undefined
             /\ indexFd' = Undefined
        /\ (pc = "file" /\ pc' = "subdir") =>
             disk'[key] = AloneAt(i + 1)]_vars

\* C27 witness: the second subdirectory is imported behind one of another
\* key that wrote two records, and its first index entry is written.
C27_Witness ==
  /\ Importing
  /\ i = 1
  /\ Len(produced[1]) >= 2
  /\ KeyAt(1) # key
  /\ disk[key].idx # <<>>
  /\ disk[key].idx[1].offset = 0

\* The records of the first n dated files of the subdirectory at position j,
\* each file scanned alone from the start of its content.
RECURSIVE RecordsUpTo(_, _, _)
RecordsUpTo(j, dated, n) ==
  IF n = 0 THEN <<>>
  ELSE RecordsUpTo(j, dated, n - 1)
       \o (IF IsNaN(dated[n].date) THEN <<>>
           ELSE RecordsFrom(ContentIn(Subdirs[j].files, dated[n].name),
                            ScanStart,
                            Context(OwnCharacter, Classify(Subdirs[j].name).name,
                                    Classify(Subdirs[j].name).isChannel,
                                    dated[n].date)))

\* C28: the step that reads a day-file leaves the cursor and the start of
\* the line at 0 and the ad flag off, and the step that ends the scan of a
\* day-file leaves, as the records of the subdirectory, the records each of
\* its day-files so far yields when scanned alone from its start with the
\* context of the subdirectory and its own date.
C28_ScanResetPerFile ==
  [][/\ (pc = "file" /\ pc' = "scan") =>
          /\ scan'.index = 0
          /\ scan'.start = 0
          /\ ~scan'.ignoreLine
     /\ (pc = "scan" /\ pc' = "file") =>
          produced'[i + 1] = RecordsUpTo(i + 1, files, fileAt)]_vars

\* C28 witness: the day-file before ended inside an ad, and the scan of the
\* next one has yielded its record.
C28_Witness ==
  /\ pc = "file"
  /\ fileAt = 3
  /\ Len(files) = 2
  /\ ContentOf(files[1].name) = DayF.content
  /\ scan.did = "end"
  /\ Len(produced[i + 1]) = 1

\* The character at 0-based position p of the content is a "\n" and the text
\* behind it matches the header pattern.
HeaderBehind(p) ==
  /\ content[p + 1] = "\n"
  /\ LogRegexTest(Substr(content, p + 1, HeaderWindow))

\* C29: an iteration inside a suppressed region ends the region exactly when
\* the character at the cursor is a "\n" followed by text that matches the
\* header pattern; the line then starts behind that newline, no line is
\* ended by the iteration, and the rest of the scan yields the records the
\* text behind that newline yields when scanned alone; at any other
\* character, a newline included, the region goes on.
C29_ResumeAtHeaderNewline ==
  [][(pc = "scan" /\ pc' = "scan" /\ scan.ignoreLine) =>
       /\ lines' = lines
       /\ scan'.index = scan.index + 1
       /\ IF HeaderBehind(scan.index)
          THEN /\ ~scan'.ignoreLine
               /\ scan'.start = scan.index + 1
               /\ RecordsFrom(content, scan', ScanContext)
                    = RecordsFrom(Substring(content, scan.index + 1,
                                            Len(content)),
                                  ScanStart, ScanContext)
          ELSE /\ scan'.ignoreLine
               /\ scan'.start = scan.start]_vars

\* C29 witness: a suppressed region went over a newline that no header
\* follows and ended at a later one that a header follows.
C29_Witness ==
  /\ pc = "scan"
  /\ scan.did = "resume"
  /\ ~scan.ignoreLine
  /\ scan.start = scan.index
  /\ \E q \in 1..(scan.start - 1) : content[q] = "\n"
  /\ RecordsFrom(content, scan, ScanContext) # <<>>

\* The records of the lines that were ended so far, in order.
RECURSIVE Emitted(_, _)
Emitted(ls, n) ==
  IF n = 0 THEN <<>>
  ELSE Emitted(ls, n - 1)
       \o (IF ls[n].did = "emit" THEN <<ls[n].message>> ELSE <<>>)

\* The content without the line that entry e of lines dropped and without
\* the newline that ended it.
WithoutDropped(e) ==
  Substring(content, 0, lines[e].at - Len(lines[e].line))
  \o Substring(content,
               lines[e].at + (IF lines[e].char = "\r" THEN 2 ELSE 1),
               Len(content))

\* C30: when the scan of a content has ended, the records it yielded are the
\* records the content yields without any one of the lines that were
\* dropped.
C30_DropLeavesRestUnaffected ==
  pc = "scanned" =>
    \A e \in 1..Len(lines) :
      lines[e].did = "drop" =>
        Emitted(lines, Len(lines))
          = RecordsFrom(WithoutDropped(e), ScanStart, ScanContext)

\* The 0-based positions of content at which a logical line starts: 0, and
\* every position behind a "\n" at which the header pattern matches.
LineStarts ==
  {p \in 0..(Len(content) - 1) :
     \/ p = 0
     \/ /\ content[p] = "\n"
        /\ LogRegexTest(Substr(content, p, HeaderWindow))}

\* The position at which the logical line that starts at s ends: the start
\* of the next one, or the end of the content.
LineLimit(s) ==
  IF \E p \in LineStarts : p > s
  THEN CHOOSE p \in LineStarts : p > s /\ \A q \in LineStarts : q > s => p <= q
  ELSE Len(content)

\* The text of the logical line that starts at s, without the "\r\n" or "\n"
\* at its end.
RECURSIVE Chomp(_)
Chomp(s) ==
  IF s # <<>> /\ s[Len(s)] \in {"\r", "\n"}
  THEN Chomp(SubSeq(s, 1, Len(s) - 1))
  ELSE s

LineText(s) == Chomp(Substring(content, s, LineLimit(s)))

\* The logical line that starts at s is not an ad and has a time that parses.
TimedLine(s) ==
  /\ ~AdLineAt(s)
  /\ LET made == createMessage(LineText(s), ScanContext.ownCharacter,
                               ScanContext.name, ScanContext.isChannel,
                               ScanContext.date)
     IN  made # UndefinedMessage /\ ~IsNaN(made.time)

\* C31: when the scan of a content has ended, every logical line of it that
\* is not an ad and has a time that parses has given exactly one record.
C31_EveryTimedLineOneRecord ==
  pc = "scanned" =>
    \A s \in LineStarts :
      TimedLine(s) =>
        Cardinality({n \in 1..Len(lines) :
                       lines[n].did = "emit" /\ StartOf(lines[n]) = s}) = 1

\* What the first "]" of the line closes, without the "[".
BracketedTime == Substring(content, 1, IndexOf(content, "]", 0))

\* The bracketed time holds two digits, a separator and two digits.
HasClock(time) ==
  /\ Len(time) >= 5
  /\ time[1] \in Digits /\ time[2] \in Digits
  /\ time[4] \in Digits /\ time[5] \in Digits

\* The number two digits at 1-based position at of s stand for.
TwoDigits(s, at) == 10 * DigitValue(s[at]) + DigitValue(s[at + 1])

\* C32: the time of the record of a line whose bracket holds hh?mm is the
\* date of the file plus h * 60 + m minutes, h being hh less 12 exactly when
\* the bracketed time ends in "AM": "09:15AM" is 165 minutes before the
\* start of the date and "09:05PM" is 545 minutes behind it.
C32_TimeIsDatePlusMinutes ==
  (pc = "made" /\ IndexOf(content, "]", 0) # -1 /\ HasClock(BracketedTime)) =>
    /\ message.time
         = files[fileAt].date
           + (TwoDigits(BracketedTime, 1)
              - (IF EndsWith(BracketedTime, <<"A", "M">>) THEN 12 ELSE 0)) * 60
           + TwoDigits(BracketedTime, 4)
    /\ BracketedTime = <<"0", "9", ":", "1", "5", "A", "M">> =>
         message.time = files[fileAt].date - 165
    /\ BracketedTime = <<"0", "9", ":", "0", "5", "P", "M">> =>
         message.time = files[fileAt].date + 545

\* C32 witness: the line timed "09:15AM" gave a record of hour -3.
C32_Witness ==
  /\ pc = "made"
  /\ BracketedTime = <<"0", "9", ":", "1", "5", "A", "M">>
  /\ message.type = "Message"
  /\ message.time = files[fileAt].date - 3 * 60 + 15

\* The text of the line behind the time bracket: what follows the first "]",
\* without the blank that separates it when there is one.
TextBehindBracket ==
  LET close == IndexOf(content, "]", 0)
  IN  Substring(content,
                IF CharAt(content, close + 1) = " " THEN close + 2
                ELSE close + 1,
                Len(content))

\* The sender the rules give for text in a conversation called name_.
RuleSender(text, name_, isChannel_) ==
  IF StartsWithAt(text, 0, OwnCharacter) THEN OwnCharacter
  ELSE IF ~isChannel_ /\ StartsWithAt(text, 0, name_) THEN name_
  ELSE CharRegexExec(Substr(text, 0, 21)).group

\* C33: the sender of the record of a line that has a "]" and is not a roll
\* is the owner when the text behind the time bracket starts with the
\* owner's name, else the other party when the conversation is private and
\* the text starts with its name, else what the name pattern finds in the
\* first 21 characters of the text, or the empty string.
C33_SenderByFirstRule ==
  (/\ pc = "made"
   /\ IndexOf(content, "]", 0) # -1
   /\ CharAt(TextBehindBracket, 0) # "[") =>
    message.sender = RuleSender(TextBehindBracket, name, isChannel)

\* The 0-based position behind the sender of the record in the line.
BehindSender == IndexOf(content, "]", 0) + 2 + Len(message.sender)

\* The text behind the ":" that follows the sender, without the blank that
\* separates it when there is one.
TextBehindColon ==
  Substring(content,
            IF CharAt(content, BehindSender + 1) = " " THEN BehindSender + 2
            ELSE BehindSender + 1,
            Len(content))

\* The "/me" prefix of a text: /^\/me\b/i.
HasMePrefix(text) ==
  /\ Len(text) >= 3
  /\ text[1] = "/"
  /\ text[2] \in {"m", "M"}
  /\ text[3] \in {"e", "E"}
  /\ (Len(text) = 3 \/ text[4] \notin WordChars)

\* C34: the record of a line that has a "]" and is not a roll is an Action
\* when no ":" follows the sender; when a ":" follows, it is an Action whose
\* text is the text behind the ":" less its first 3 characters if that text
\* has the "/me" prefix, and a Message with the text behind the ":"
\* otherwise.
C34_ActionByMePrefix ==
  (/\ pc = "made"
   /\ IndexOf(content, "]", 0) # -1
   /\ CharAt(content, IndexOf(content, "]", 0) + 2) # "[") =>
    IF CharAt(content, BehindSender) # ":"
    THEN message.type = "Action"
    ELSE IF HasMePrefix(TextBehindColon)
    THEN /\ message.type = "Action"
         /\ message.text = Substr(TextBehindColon, 3, MaxTextLen)
    ELSE /\ message.type = "Message"
         /\ message.text = Substr(TextBehindColon, 0, MaxTextLen)

\* The 0-based position at which the second bracketed field of a roll line
\* starts: behind the "] " of the time and the 6 characters of "[user]".
RollFieldStart == IndexOf(content, "]", 0) + 8

\* The second bracketed field of a roll line: up to the next "[", or to the
\* end of the line when there is none.
RollField ==
  Substring(content, RollFieldStart,
            IF IndexOf(content, "[", RollFieldStart) = -1 THEN Len(content)
            ELSE IndexOf(content, "[", RollFieldStart))

\* C35: the record of a line whose character behind the "] " of the time is
\* "[" is a Roll; its sender is the second bracketed field cut to 20
\* characters, and when the field is closed by a "[" its text is the line
\* behind the sender and 6 more characters.
C35_RollSenderIsField ==
  (/\ pc = "made"
   /\ IndexOf(content, "]", 0) # -1
   /\ CharAt(content, IndexOf(content, "]", 0) + 2) = "[") =>
    /\ message.type = "Roll"
    /\ Len(message.sender) <= RollSenderMax
    /\ message.sender = Substr(RollField, 0, RollSenderMax)
    /\ IndexOf(content, "[", RollFieldStart) # -1 =>
         message.text
           = Substr(content, RollFieldStart + Len(message.sender) + 6,
                    MaxTextLen)

\* The cursor the iteration that can run next leaves.
IterationCursor ==
  IF ScanStep(content, scan, ScanContext).did = "emit"
  THEN AfterWrite(ScanStep(content, scan, ScanContext)).index
  ELSE ScanStep(content, scan, ScanContext).index

\* C36: whenever the loop condition holds, the iteration that runs next
\* leaves the cursor further on; every iteration of the scanning loop, in
\* the normal and in the suppressed state, leaves the cursor further on than
\* it found it; and the scan of every content reaches its end.
C36_ScanTerminates ==
  /\ [](IterateEnabled => IterationCursor > scan.index)
  /\ [][(pc = "scan" /\ pc' = "scan") => scan'.index > scan.index]_vars
  /\ <>(pc = "scanned")

\* C36 witness: the scan of a content that starts with an ad and has a line
\* behind it went through the suppressed and the normal state and has
\* ended, with the cursor at the end of the content.
C36_Witness ==
  /\ pc = "scanned"
  /\ AdLineAt(0)
  /\ ~scan.ignoreLine
  /\ scan.index >= Len(content)

====
